---- MODULE Spec2Model ----
(***************************************************************************)
(* Incremental synchronisation engine of the analytics platform:           *)
(*   MongoDB collection --extract--> Iceberg table --load--> DuckDB table   *)
(* The extractor (analytics/extractor.py) reads the source since the high  *)
(* water mark, appends batches to the Iceberg table and then advances the  *)
(* mark; the loader (analytics/loader.py) upserts the Iceberg table into   *)
(* raw.conversations, whose primary key is _id.                            *)
(* DuckDBLoader.connect retries lock conflicts with exponential backoff,   *)
(* and the Prefect flow (analytics/flows/main_pipeline.py) runs Extract,   *)
(* Load and Transform in order, stopping the Metabase containers around    *)
(* the steps that open the DuckDB file.                                    *)
(***************************************************************************)
EXTENDS Integers, Sequences, FiniteSets, TLC

\* ---------------------------------------------------------------- bounds
MaxDocs == 2        \* number of distinct document ids
MaxTime == 2        \* clock values 1..MaxTime
MaxBatch == 2       \* settings.pipeline.batch_size is in 1..MaxBatch
MaxIceberg == 3     \* records kept in the Iceberg table
MaxWall == 3        \* wall-clock readings 0..MaxWall
MaxOffset == 1      \* UTC offsets -MaxOffset..MaxOffset
DayLength == 2      \* clock readings per calendar day
MaxHwm == 2         \* timestamps given to HighWaterMark.set read 1..MaxHwm
MaxSets == 2        \* calls of HighWaterMark.set
ChunkLength == 4    \* pieces of text one write puts into the file
MaxStamp == 2       \* timestamps of documents read 1..MaxStamp
MaxBlocks == 2      \* blocks in the content list of a message
MaxCreates == 3     \* calls of create_database
MaxVersion == 11    \* versions of the Iceberg metadata are 0..MaxVersion
PadWidth == 1       \* digits a metadata file name pads the version to
MaxFetch == 3       \* documents one stepwise run of extract fetches

\* LIMIT 10 of the top projects query
TOP_PROJECTS_LIMIT == 10

\* None, for a timestamp (parse_timestamp / HighWaterMark.get return None)
NoTs == 0

Ids == 1..MaxDocs
Times == 1..MaxTime

VARIABLES
    source,         \* the MongoDB collection: a set of documents [id, ing]
    now,            \* datetime.now(timezone.utc)
    hwmFile,        \* the high water mark file: NoTs when there is no file
    icebergCreated, \* the Iceberg table (and its metadata) exists
    iceberg,        \* the records of the Iceberg table, in append order
    tableExists,    \* raw.conversations exists in DuckDB
    duck,           \* the rows of raw.conversations
    last,           \* outcome of the latest operation
    prev,           \* the extract run right before it, if there was one
    \* DuckDBLoader.connect
    conn,           \* self._conn: "None" or "open"
    attempt,        \* the loop variable of connect
    last_error,     \* the local last_error of connect
    connPc,         \* where connect is: idle, loop, returned, raised
    connLog,        \* what connect did: attempts, failures, sleeps
    \* analytics_pipeline
    pc,             \* where the flow is
    opts,           \* the parameters the flow was called with
    results,        \* the results dictionary of the flow
    tries,          \* executions of each task's body so far
    signals,        \* the docker commands run so far, in order
    paused,         \* the local paused of metabase_paused
    loaderOpen,     \* load_task holds an open DuckDB connection
    dbtRunning,     \* the dbt build subprocess is running
    failed,         \* the task whose exception propagates, or "none"
    snap,           \* the stores as the last completed task left them
    \* HighWaterMark: the file, one caller of set and one caller of get
    hwmExists,      \* file_path.exists()
    hwmParent,      \* file_path.parent exists
    hwmText,        \* the text of the file, piece by piece
    setPc,          \* where set is: idle, open, write
    setArg,         \* the timestamp set was called with
    setBuf,         \* the part of the text set has not written yet
    sets,           \* calls of set that have returned
    held,           \* the timestamp the file held when no set was running
    getPc,          \* where get is: idle, reading, done
    getBuf,         \* the text get has read so far
    getResult,      \* what get returned, or the exception it raised
    getCands,       \* the timestamps the file held or was given during get
    getSets,        \* calls of set that ran or began since get was called
    \* DocumentTransformer
    srcDoc,         \* the document given to transform
    runTime,        \* extracted_at, the time of the extraction run
    normRecord,     \* the record transform returned, or what it raised
    normPc,         \* where transform is: idle, returned, raised
    \* get_table_stats
    columns,        \* project_id and type of the row of each _id
    stats,          \* what get_table_stats returned, or what it raised
    \* create_database
    catalog,        \* the schema, table and indexes of the database file
    creates,        \* calls of create_database so far
    created,        \* what the latest call of create_database did
    \* load_from_iceberg
    tablePath,      \* iceberg_table_path.exists()
    metadataDir,    \* metadata_dir.exists()
    metaVersions,   \* the versions whose *.metadata.json file is there
    loadOut,        \* what the latest call of load_from_iceberg did
    \* extract, step by step
    xPc,            \* where extract is
    xLoc,           \* the parameters and locals of extract
    cursor,         \* the documents the cursor has yet to yield
    fetched,        \* the documents the cursor has yielded
    flushed,        \* the appends of this run, each a list of records
    mongo           \* the handles _client, _db, _collection

dataVars == <<source, now, hwmFile, icebergCreated, iceberg, tableExists, duck,
              last, prev>>
connVars == <<conn, attempt, last_error, connPc, connLog>>
pipeVars == <<pc, opts, results, tries, signals, paused, loaderOpen,
              dbtRunning, failed, snap>>

fileVars == <<hwmExists, hwmParent, hwmText, setPc, setArg, setBuf, sets, held,
              getPc, getBuf, getResult, getCands, getSets>>
normVars == <<srcDoc, runTime, normRecord, normPc>>
statVars == <<columns, stats>>
schemaVars == <<catalog, creates, created>>
loadVars == <<tablePath, metadataDir, metaVersions, loadOut>>
runVars == <<xPc, xLoc, cursor, fetched, flushed, mongo>>
moreVars == <<schemaVars, loadVars, runVars>>
auxVars == <<fileVars, normVars, statVars, moreVars>>

vars == <<dataVars, connVars, pipeVars, auxVars>>

\* ------------------------------------------------------------ helpers
\* outcome record of an operation: what it returned or that it raised
\*   since: the watermark the run read, hwm0: the file before the run,
\*   count: the value returned, written: the records the run appended,
\*   rerun: the run repeats a run that raised after it had appended
\*          records; the load repeats a load that returned
\*   fault: the failure injected from outside, "none" when there was none
Outcome(op, full, fault, raised, since, hwm0, count, written, rerun) ==
    [op |-> op, full |-> full, fault |-> fault, raised |-> raised,
     since |-> since, hwm0 |-> hwm0, count |-> count, written |-> written,
     rerun |-> rerun]

NoOutcome == Outcome("none", FALSE, "none", FALSE, NoTs, NoTs, 0, 0, FALSE)

\* what is remembered of an extract run when the next operation follows it
Brief(o) ==
    IF o.op = "extract"
    THEN [op |-> o.op, full |-> o.full, raised |-> o.raised,
          since |-> o.since, rerun |-> o.rerun]
    ELSE [op |-> "none", full |-> FALSE, raised |-> FALSE,
          since |-> NoTs, rerun |-> FALSE]

\* the ids of a sequence of records, as a set
IdsOf(recs) == {recs[i].id : i \in 1..Len(recs)}

\* some _id occurs in two records of the sequence
HasDuplicateIds(recs) ==
    \E i, j \in 1..Len(recs) : i /= j /\ recs[i].id = recs[j].id

\* number of rows of a table with the given id
RowsWithId(rows, id) == Cardinality({i \in 1..Len(rows) : rows[i].id = id})

\* ------------------------------------------------------- DocumentTransformer
\* transform: the flat record of a document; the id and the ingestion
\* timestamp are carried over, extracted_at is the time of the run
Transform(doc, extracted_at) ==
    [id |-> doc.id, ing |-> doc.ing, ext |-> extracted_at]

\* ------------------------------------------------------------ HighWaterMark
\* get: None when the file does not exist
HwmGet(file) == file

\* set: rewrites the file with the timestamp
HwmSet(file, timestamp) == timestamp

\* ------------------------------------------------------------ IcebergExtractor
\* QueryMatches with the comparison turned round ($lt for $gt)
QueryMatches_Lt(doc, since) ==
    IF since /= NoTs THEN doc.ing /= NoTs /\ doc.ing < since ELSE TRUE

\* QueryMatches with an inclusive comparison ($gte for $gt)
QueryMatches_Gte(doc, since) ==
    IF since /= NoTs THEN doc.ing /= NoTs /\ doc.ing >= since ELSE TRUE

\* the query of _fetch_documents: {"ingestedAt": {"$gt": since}} when since
\* is given (a document without ingestedAt does not match), {} otherwise
QueryMatches(doc, since) ==
    IF since /= NoTs THEN doc.ing /= NoTs /\ doc.ing > since ELSE TRUE

\* _fetch_documents: the matching documents sorted by ingestedAt ascending
\* (documents without the field first); the order of ties is the server's
FetchDocuments(since) ==
    LET matching == {d \in source : QueryMatches(d, since)}
        n == Cardinality(matching)
    IN  {s \in [1..n -> matching] :
            /\ \A i, j \in 1..n : i /= j => s[i] /= s[j]
            /\ \A i, j \in 1..n : i < j => s[i].ing <= s[j].ing}

\* TrackLatest keeping the smaller timestamp (< for >)
TrackLatest_Min(latest, ing) ==
    IF ing /= NoTs
    THEN (IF latest = NoTs \/ ing < latest THEN ing ELSE latest)
    ELSE latest

\* the tracking of latest_ingested_at in the loop of extract
TrackLatest(latest, ing) ==
    IF ing /= NoTs
    THEN (IF latest = NoTs \/ ing > latest THEN ing ELSE latest)
    ELSE latest

\* _write_to_iceberg under a fault plan: the st.appends+1-th append raises
\* when the plan says so, otherwise the batch is appended
WriteToIceberg(st, fault) ==
    IF fault.kind = "append" /\ fault.at = st.appends + 1
    THEN [st EXCEPT !.raised = TRUE]
    ELSE [st EXCEPT !.appended = st.appended \o st.batch,
                    !.appends = st.appends + 1,
                    !.batch = <<>>]

\* the for loop of extract over the cursor, from the i-th document on
RECURSIVE ExtractLoop(_, _, _, _, _, _)
ExtractLoop(docs, i, st, fault, extracted_at, bs) ==
    IF st.raised THEN st
    ELSE IF fault.kind = "cursor" /\ fault.at = i /\ i <= Len(docs) + 1
    THEN [st EXCEPT !.raised = TRUE]
    ELSE IF i > Len(docs) THEN st
    ELSE LET record == Transform(docs[i], extracted_at)
             st1 == [st EXCEPT !.batch = Append(st.batch, record),
                               !.latest = TrackLatest(st.latest, record.ing),
                               !.total = st.total + 1]
             st2 == IF Len(st1.batch) >= bs
                    THEN WriteToIceberg(st1, fault) ELSE st1
         IN  ExtractLoop(docs, i + 1, st2, fault, extracted_at, bs)

\* ExtractRun without the write of the remaining records
ExtractRun_NoRemainder(docs, fault, extracted_at, bs) ==
    LET st0 == [batch |-> <<>>, latest |-> NoTs, total |-> 0,
                appended |-> <<>>, appends |-> 0, raised |-> FALSE]
    IN  IF fault.kind = "connect" THEN [st0 EXCEPT !.raised = TRUE]
        ELSE ExtractLoop(docs, 1, st0, fault, extracted_at, bs)

\* the body of the try block of extract: connect, loop, write the rest
ExtractRun(docs, fault, extracted_at, bs) ==
    LET st0 == [batch |-> <<>>, latest |-> NoTs, total |-> 0,
                appended |-> <<>>, appends |-> 0, raised |-> FALSE]
    IN  IF fault.kind = "connect" THEN [st0 EXCEPT !.raised = TRUE]
        ELSE LET st1 == ExtractLoop(docs, 1, st0, fault, extracted_at, bs)
             IN  IF ~st1.raised /\ st1.batch /= <<>>
                 THEN WriteToIceberg(st1, fault) ELSE st1

\* fault plans of one run: nothing fails, the connection fails, the cursor
\* raises when asked for its at-th document, the at-th append raises
ExtractFaults ==
    [kind : {"none", "connect"}, at : {0}]
        \cup [kind : {"cursor", "append"}, at : 1..(MaxDocs + 1)]

\* the plan names a point the run over n documents reaches: the cursor is
\* asked n + 1 times, and there is one append per started batch
CanOccur(fault, n, bs) ==
    \/ fault.kind \in {"none", "connect"}
    \/ fault.kind = "cursor" /\ fault.at <= n + 1
    \/ fault.kind = "append" /\ (fault.at - 1) * bs < n

\* TableAppend that replaces the stored records of the same _id
TableAppend_Upsert(table, recs) ==
    SelectSeq(table, LAMBDA r : r.id \notin IdsOf(recs)) \o recs

\* table.append(arrow_table): the records are added after those stored
TableAppend(table, recs) == table \o recs

\* UpdateHighWaterMark run whether or not the try block raised
UpdateHighWaterMark_Always(file, st) ==
    IF st.latest /= NoTs THEN HwmSet(file, st.latest) ELSE file

\* the end of the try block: the mark is set once the loop and the last
\* write are through, when an ingestion timestamp was seen
UpdateHighWaterMark(file, st) ==
    IF ~st.raised /\ st.latest /= NoTs THEN HwmSet(file, st.latest) ELSE file

\* extract(full_backfill), with the batch size the settings give this run
Extract(full_backfill, fault, docs, batch_size) ==
    LET since == IF ~full_backfill THEN HwmGet(hwmFile) ELSE NoTs
        st == ExtractRun(docs, fault, now, batch_size)
    IN  /\ docs \in FetchDocuments(since)
        /\ Len(iceberg) + Len(docs) <= MaxIceberg
        /\ icebergCreated' = TRUE
        /\ iceberg' = TableAppend(iceberg, st.appended)
        /\ hwmFile' = UpdateHighWaterMark(hwmFile, st)
        /\ last' = Outcome("extract", full_backfill,
                           IF st.raised THEN fault.kind ELSE "none",
                           st.raised, since,
                           hwmFile,
                           IF st.raised THEN 0 ELSE st.total, Len(st.appended),
                           /\ last.op = "extract" /\ last.raised
                           /\ last.written > 0 /\ last.full = full_backfill
                           /\ last.since = since)
        /\ prev' = Brief(last)
        /\ UNCHANGED <<source, now, tableExists, duck>>

\* ------------------------------------------------------------ DuckDBLoader
\* InsertOnConflictUpdate without the ON CONFLICT clause taking effect:
\* every record becomes a new row
InsertOnConflictUpdate_Plain(rows, recs) == rows \o recs

\* INSERT INTO raw.conversations ... ON CONFLICT (_id) DO UPDATE SET every
\* other column = EXCLUDED's, applied record by record
RECURSIVE InsertOnConflictUpdate(_, _)
InsertOnConflictUpdate(rows, recs) ==
    IF recs = <<>> THEN rows
    ELSE LET r == Head(recs)
             hit == {i \in 1..Len(rows) : rows[i].id = r.id}
             rows1 == IF hit = {}
                      THEN Append(rows, r)
                      ELSE [i \in 1..Len(rows) |->
                               IF i \in hit THEN r ELSE rows[i]]
         IN  InsertOnConflictUpdate(rows1, Tail(recs))

LoadFaults == {"none", "connect", "insert"}

\* what DuckDB does with an INSERT ... ON CONFLICT DO UPDATE whose input
\* holds the same key twice: it rejects the statement, or applies the rows
\* in turn, depending on the version and on how the rows fall into chunks
DupOutcomes == {"raise", "apply"}

\* create_database
CreateDatabase(fault) ==
    /\ fault \in {"none", "connect"}
    /\ tableExists' = IF fault = "connect" THEN tableExists ELSE TRUE
    /\ last' = Outcome("create", FALSE, fault, fault = "connect", NoTs, NoTs,
                       0, 0, FALSE)
    /\ prev' = Brief(NoOutcome)
    /\ UNCHANGED <<source, now, hwmFile, icebergCreated, iceberg, duck>>

\* DeleteFrom deleting nothing
DeleteFrom_Skip(rows, full_refresh) == rows

\* if full_refresh: DELETE FROM raw.conversations
DeleteFrom(rows, full_refresh) == IF full_refresh THEN <<>> ELSE rows

\* RowsLoaded as the difference of the row counts whatever the mode
RowsLoaded_Difference(full_refresh, count_before, count_after) ==
    count_after - count_before

\* rows_loaded = count_after - count_before if not full_refresh
\*               else count_after
RowsLoaded(full_refresh, count_before, count_after) ==
    IF ~full_refresh THEN count_after - count_before ELSE count_after

\* load(full_refresh) = load_from_iceberg(path, full_refresh);
\* upsert() = load(full_refresh=False)
Load(full_refresh, fault, dup) ==
    LET notFound == ~icebergCreated
        early == notFound \/ fault = "connect"
        count_before == Len(duck)
        deleted == DeleteFrom(duck, full_refresh)
        rejected == fault = "insert" \/ (HasDuplicateIds(iceberg) /\ dup = "raise")
        loaded == InsertOnConflictUpdate(deleted, iceberg)
        count_after == Len(loaded)
        rows_loaded == RowsLoaded(full_refresh, count_before, count_after)
    IN  /\ tableExists' = IF early THEN tableExists ELSE TRUE
        /\ duck' = IF early THEN duck ELSE IF rejected THEN deleted ELSE loaded
        /\ last' = Outcome("load", full_refresh, fault, early \/ rejected,
                           NoTs, NoTs,
                           IF early \/ rejected THEN 0 ELSE rows_loaded, 0,
                           last.op = "load" /\ ~last.raised)
        /\ prev' = Brief(last)
        /\ UNCHANGED <<source, now, hwmFile, icebergCreated, iceberg>>

\* ------------------------------------------------------------ environment
\* a document is inserted into the source collection
InsertDocument(id, ing) ==
    /\ id \notin {d.id : d \in source}
    /\ ing \in {NoTs} \cup 1..now
    /\ source' = source \cup {[id |-> id, ing |-> ing]}
    /\ last' = Outcome("insert", FALSE, "none", FALSE, NoTs, NoTs, 0, 0, FALSE)
    /\ prev' = Brief(NoOutcome)
    /\ UNCHANGED <<now, hwmFile, icebergCreated, iceberg, tableExists, duck>>

\* time passes
Tick ==
    /\ now < MaxTime
    /\ now' = now + 1
    /\ UNCHANGED <<source, hwmFile, icebergCreated, iceberg, tableExists,
                   duck, last, prev>>

\* ------------------------------------------------------------ connect
\* retry configuration for lock conflicts
LOCK_RETRY_MAX_ATTEMPTS == 5
LOCK_RETRY_BASE_DELAY == 2
LOCK_RETRY_MAX_DELAY == 30

\* texts are sequences of characters
UpperCase == <<"A", "B", "C", "D", "E", "F", "G", "H", "I", "J", "K", "L", "M",
               "N", "O", "P", "Q", "R", "S", "T", "U", "V", "W", "X", "Y", "Z">>
LowerCase == <<"a", "b", "c", "d", "e", "f", "g", "h", "i", "j", "k", "l", "m",
               "n", "o", "p", "q", "r", "s", "t", "u", "v", "w", "x", "y", "z">>

\* str.lower()
Lower(text) ==
    [i \in 1..Len(text) |->
        IF \E k \in 1..Len(UpperCase) : UpperCase[k] = text[i]
        THEN LowerCase[CHOOSE k \in 1..Len(UpperCase) : UpperCase[k] = text[i]]
        ELSE text[i]]

\* word in text
Contains(text, word) ==
    \E i \in 1..(Len(text) - Len(word) + 1) :
        SubSeq(text, i, i + Len(word) - 1) = word

WordLock == <<"l", "o", "c", "k">>
WordConflicting == <<"c", "o", "n", "f", "l", "i", "c", "t", "i", "n", "g">>

\* messages an exception of duckdb.connect or of SET threads may carry
Messages ==
    {<<"s", "e", "t", " ", "l", "o", "c", "k">>,
     <<"C", "o", "n", "f", "l", "i", "c", "t", "i", "n", "g">>,
     <<"L", "O", "C", "K", "E", "D">>,
     <<"d", "i", "s", "k", " ", "f", "u", "l", "l">>}

\* an exception: its class, its message, and the statement of the try
\* block that raised it (duckdb.connect, or the SET after it)
Errors ==
    [type : {"IOException", "Exception"}, msg : Messages,
     stage : {"connect", "set"}]

NoError == [type |-> "None", msg |-> <<>>, stage |-> "none"]

\* IsLockConflict for which every I/O error is a lock conflict
IsLockConflict_AnyIO(e) == TRUE

\* "lock" in error_msg or "conflicting" in error_msg
IsLockConflict(e) ==
    LET error_msg == Lower(e.msg)
    IN  Contains(error_msg, WordLock) \/ Contains(error_msg, WordConflicting)

\* the handler of the try block catches duckdb.IOException only
Caught(e) == e.type = "IOException"

\* RetryDelay without the exponential growth
RetryDelay_Flat(n) == LOCK_RETRY_BASE_DELAY

\* min(LOCK_RETRY_BASE_DELAY * (2 ** attempt), LOCK_RETRY_MAX_DELAY)
RetryDelay(n) ==
    IF LOCK_RETRY_BASE_DELAY * (2 ^ n) < LOCK_RETRY_MAX_DELAY
    THEN LOCK_RETRY_BASE_DELAY * (2 ^ n)
    ELSE LOCK_RETRY_MAX_DELAY

\* LoopContinues going round once more than the maximum
LoopContinues_OneMore(n) == n < LOCK_RETRY_MAX_ATTEMPTS + 1

\* for attempt in range(LOCK_RETRY_MAX_ATTEMPTS)
LoopContinues(n) == n < LOCK_RETRY_MAX_ATTEMPTS

\* an entry of connLog: a call of duckdb.connect ("try", the n-th), a
\* time.sleep of n seconds ("sleep"), the return, the exception raised
Event(ev, n, err) == [ev |-> ev, n |-> n, err |-> err]

\* connect has not been called
ConnIdle ==
    /\ conn = "None"
    /\ attempt = 0
    /\ last_error = NoError
    /\ connPc = "idle"
    /\ connLog = <<>>

\* connect is called: it returns self._conn when there is one
ConnectCall ==
    /\ connPc # "loop"
    /\ attempt' = 0
    /\ last_error' = NoError
    /\ conn' = conn
    /\ IF conn # "None"
       THEN /\ connPc' = "returned"
            /\ connLog' = <<Event("return", 0, NoError)>>
       ELSE /\ connPc' = "loop"
            /\ connLog' = <<>>

\* one pass of the retry loop whose try block returns
ConnectSucceeds ==
    /\ connPc = "loop"
    /\ conn' = "open"
    /\ connPc' = "returned"
    /\ connLog' = connLog \o <<Event("try", attempt + 1, NoError),
                               Event("return", 0, NoError)>>
    /\ UNCHANGED <<attempt, last_error>>

\* one pass of the retry loop whose try block raises e: a lock conflict is
\* slept on and the loop goes on, and raises last_error when it is
\* exhausted; any other exception leaves connect at once.  self._conn is
\* assigned as soon as duckdb.connect has returned.
ConnectFails(e) ==
    /\ connPc = "loop"
    /\ conn' = IF e.stage = "set" THEN "open" ELSE conn
    /\ IF Caught(e) /\ IsLockConflict(e)
       THEN /\ last_error' = e
            /\ attempt' = attempt + 1
            /\ IF LoopContinues(attempt')
               THEN /\ connPc' = "loop"
                    /\ connLog' = connLog \o
                           <<Event("try", attempt + 1, NoError),
                             Event("sleep", RetryDelay(attempt), NoError)>>
               ELSE /\ connPc' = "raised"
                    /\ connLog' = connLog \o
                           <<Event("try", attempt + 1, NoError),
                             Event("sleep", RetryDelay(attempt), NoError),
                             Event("raise", 0, e)>>
       ELSE /\ last_error' = IF Caught(e) THEN e ELSE last_error
            /\ attempt' = attempt
            /\ connPc' = "raised"
            /\ connLog' = connLog \o <<Event("try", attempt + 1, NoError),
                                       Event("raise", 0, e)>>

\* disconnect: closes self._conn when there is one
Disconnect ==
    /\ connPc # "loop"
    /\ conn' = "None"
    /\ connPc' = "idle"
    /\ UNCHANGED <<attempt, last_error, connLog>>

\* ------------------------------------------------------------ pipeline
\* Metabase control configuration
METABASE_CONTAINERS == <<"metabase", "dbt-docs">>

Tasks == {"extract", "load", "transform"}

\* retries of the tasks extract-mongodb, load-duckdb and transform-dbt
ExtractRetries == 3
LoadRetries == 3
TransformRetries == 2

Retries(task) ==
    CASE task = "extract" -> ExtractRetries
      [] task = "load" -> LoadRetries
      [] OTHER -> TransformRetries

\* the parameters of analytics_pipeline
Options ==
    [full_backfill : BOOLEAN, full_refresh : BOOLEAN, skip_extract : BOOLEAN,
     skip_load : BOOLEAN, skip_transform : BOOLEAN,
     coordinate_metabase : BOOLEAN]

NoOptions ==
    [full_backfill |-> FALSE, full_refresh |-> FALSE, skip_extract |-> FALSE,
     skip_load |-> FALSE, skip_transform |-> FALSE,
     coordinate_metabase |-> FALSE]

\* needs_duckdb = not skip_load or not skip_transform
NeedsDuckdb(o) == ~o.skip_load \/ ~o.skip_transform

\* Coordinated without needs_duckdb
Coordinated_Always(o) == o.coordinate_metabase

\* if needs_duckdb and coordinate_metabase: with metabase_paused(logger)
Coordinated(o) == NeedsDuckdb(o) /\ o.coordinate_metabase

\* what subprocess.run(["docker", action, container], timeout=30) does:
\* exit code 0, "No such container", another non-zero exit, TimeoutExpired,
\* FileNotFoundError (no docker CLI), any other exception
DockerOutcomes == {"ok", "nosuch", "nonzero", "timeout", "nocli", "oserror"}

\* DockerPass without the handler of TimeoutExpired
DockerPass_TimeoutRaises(outcome, success) ==
    [result |-> CASE outcome = "ok" -> "ok"
                  [] outcome \in {"nosuch", "nonzero", "timeout"} -> "failed"
                  [] OTHER -> "unsent",
     success |-> success /\ outcome \in {"ok", "nosuch"},
     return |-> outcome = "nocli",
     raise |-> outcome = "timeout"]

\* DockerPass in which a command that fails ends the loop
DockerPass_StopsAtFailure(outcome, success) ==
    [result |-> CASE outcome = "ok" -> "ok"
                  [] outcome \in {"nosuch", "nonzero", "timeout"} -> "failed"
                  [] OTHER -> "unsent",
     success |-> success /\ outcome \in {"ok", "nosuch"},
     return |-> outcome \notin {"ok", "nosuch"},
     raise |-> FALSE]

\* one pass of the loop of _run_docker_command: the command was run and
\* exited with code 0 ("ok"), it was run and exited with another code or
\* timed out ("failed"), it could not be run ("unsent"); the success flag
\* after it, which "No such container" leaves as it was; whether the function returns False at once;
\* whether an exception leaves the function
DockerPass(outcome, success) ==
    [result |-> CASE outcome = "ok" -> "ok"
                  [] outcome \in {"nosuch", "nonzero", "timeout"} -> "failed"
                  [] OTHER -> "unsent",
     success |-> success /\ outcome \in {"ok", "nosuch"},
     return |-> outcome = "nocli",
     raise |-> FALSE]

Signal(action, container, result) ==
    [action |-> action, container |-> container, result |-> result]

\* _run_docker_command from the i-th container on: the commands run, the
\* value returned, whether it raised
RECURSIVE RunDockerFrom(_, _, _, _, _)
RunDockerFrom(action, out, i, log, success) ==
    IF i > Len(METABASE_CONTAINERS)
    THEN [log |-> log, success |-> success, raised |-> FALSE]
    ELSE LET p == DockerPass(out[i], success)
             log2 == Append(log, Signal(action, METABASE_CONTAINERS[i], p.result))
         IN  IF p.raise
             THEN [log |-> log2, success |-> FALSE, raised |-> TRUE]
             ELSE IF p.return
             THEN [log |-> log2, success |-> FALSE, raised |-> FALSE]
             ELSE RunDockerFrom(action, out, i + 1, log2, p.success)

RunDockerCommand(action, out) == RunDockerFrom(action, out, 1, <<>>, TRUE)

\* the outcomes of the docker commands of one call, one for each container
DockerRuns == [1..Len(METABASE_CONTAINERS) -> DockerOutcomes]

\* the results dictionary: for each step "unset", "skipped" ({"skipped":
\* True}) or "stats" (the dictionary the task returned)
NoResults == [extraction |-> "unset", load |-> "unset", transform |-> "unset"]

\* the stores, as a task that returned left them
Snapshot == [iceberg |-> iceberg, hwmFile |-> hwmFile, duck |-> duck]

\* the flow has not been called
PipeIdle ==
    /\ pc = "idle"
    /\ opts = NoOptions
    /\ results = NoResults
    /\ tries = [t \in Tasks |-> 0]
    /\ signals = <<>>
    /\ paused = FALSE
    /\ loaderOpen = FALSE
    /\ dbtRunning = FALSE
    /\ failed = "none"
    /\ snap = [iceberg |-> <<>>, hwmFile |-> NoTs, duck |-> <<>>]

\* analytics_pipeline is called
StartFlow(o) ==
    /\ pc = "idle"
    /\ opts' = o
    /\ results' = NoResults
    /\ snap' = Snapshot
    /\ pc' = "extract"
    /\ UNCHANGED <<tries, signals, paused, loaderOpen, dbtRunning, failed>>
    /\ UNCHANGED dataVars

\* Exhausted with one execution more than the retries allow
Exhausted_Late(task, n) == n > Retries(task) + 1

\* the task runner runs the body again until it has raised retries + 1 times
Exhausted(task, n) == n > Retries(task)

\* Propagate with the exception of load_task swallowed: Step 3 follows
Propagate_LoadSwallowed(task) ==
    CASE task = "extract" -> "raised"
      [] task = "load" -> "transform"
      [] OTHER -> "unwind"

\* where the exception of a task takes the flow: out of analytics_pipeline,
\* through the finally clause of metabase_paused when the task is one of
\* _run_duckdb_steps
Propagate(task) == IF task = "extract" THEN "raised" ELSE "unwind"

\* what a task does with the result of the step before it, which it is
\* given for the dependency only: nothing
StatsRead(marker) == "none"

\* Step 1, skipped
SkipExtract ==
    /\ pc = "extract"
    /\ opts.skip_extract
    /\ results' = [results EXCEPT !.extraction = "skipped"]
    /\ pc' = "gate"
    /\ UNCHANGED <<opts, tries, signals, paused, loaderOpen, dbtRunning,
                   failed, snap>>
    /\ UNCHANGED dataVars

\* Step 1: one execution of the body of extract_task
ExtractTask ==
    /\ pc = "extract"
    /\ ~opts.skip_extract
    /\ LET full == opts.full_backfill
       IN  \E docs \in FetchDocuments(IF ~full THEN HwmGet(hwmFile) ELSE NoTs) :
             \E bs \in (IF docs = <<>> THEN {1} ELSE 1..MaxBatch) :
               \E fault \in {f \in ExtractFaults : CanOccur(f, Len(docs), bs)} :
                   Extract(full, fault, docs, bs)
    /\ tries' = [tries EXCEPT !.extract = @ + 1]
    /\ IF ~last'.raised
       THEN /\ results' = [results EXCEPT !.extraction = "stats"]
            /\ snap' = [snap EXCEPT !.iceberg = iceberg', !.hwmFile = hwmFile']
            /\ pc' = "gate"
            /\ failed' = failed
       ELSE /\ results' = results
            /\ snap' = snap
            /\ pc' = IF Exhausted("extract", tries'.extract)
                     THEN Propagate("extract") ELSE "extract"
            /\ failed' = IF Exhausted("extract", tries'.extract)
                         THEN "extract" ELSE failed
    /\ UNCHANGED <<opts, signals, paused, loaderOpen, dbtRunning>>

\* pause_metabase, entering metabase_paused: the containers are stopped and
\* paused is what _run_docker_command returned
PauseMetabase(out) ==
    /\ pc = "gate"
    /\ Coordinated(opts)
    /\ LET r == RunDockerCommand("stop", out)
       IN  /\ signals' = signals \o r.log
           /\ paused' = r.success
           /\ pc' = IF r.raised THEN "raised" ELSE "load"
           /\ failed' = IF r.raised THEN "pause" ELSE failed
    /\ UNCHANGED <<opts, results, tries, loaderOpen, dbtRunning, snap>>
    /\ UNCHANGED dataVars

\* the else branch: _run_duckdb_steps without coordination
RunUncoordinated ==
    /\ pc = "gate"
    /\ ~Coordinated(opts)
    /\ pc' = "load"
    /\ UNCHANGED <<opts, results, tries, signals, paused, loaderOpen,
                   dbtRunning, failed, snap>>
    /\ UNCHANGED dataVars

\* Step 2, skipped
SkipLoad ==
    /\ pc = "load"
    /\ opts.skip_load
    /\ results' = [results EXCEPT !.load = "skipped"]
    /\ pc' = "transform"
    /\ UNCHANGED <<opts, tries, signals, paused, loaderOpen, dbtRunning,
                   failed, snap>>
    /\ UNCHANGED dataVars

\* Step 2: load_task opens the connection in create_database; when connect
\* raises, the finally clause has nothing to close
LoadConnect ==
    /\ pc = "load"
    /\ ~opts.skip_load
    /\ \E fault \in {"none", "connect"} : CreateDatabase(fault)
    /\ tries' = [tries EXCEPT !.load = @ + 1]
    /\ IF ~last'.raised /\ StatsRead(results.extraction) = "none"
       THEN /\ loaderOpen' = TRUE
            /\ pc' = "load_run"
            /\ failed' = failed
       ELSE /\ loaderOpen' = FALSE
            /\ pc' = IF Exhausted("load", tries'.load)
                     THEN Propagate("load") ELSE "load"
            /\ failed' = IF Exhausted("load", tries'.load)
                         THEN "load" ELSE failed
    /\ UNCHANGED <<opts, results, signals, paused, dbtRunning, snap>>

\* Step 2: loader.load(full_refresh=True) or loader.upsert(), and the
\* table statistics
LoadRun ==
    /\ pc = "load_run"
    /\ \E fault \in {"none", "insert"} :
         \E dup \in (IF fault = "none" /\ HasDuplicateIds(iceberg)
                     THEN DupOutcomes ELSE {"apply"}) :
             Load(opts.full_refresh, fault, dup)
    /\ pc' = "load_close"
    /\ UNCHANGED <<opts, results, tries, signals, paused, loaderOpen,
                   dbtRunning, failed, snap>>

\* Step 2: the finally clause of load_task, loader.disconnect(); then the
\* task returns its statistics, or is run again, or its exception leaves
\* _run_duckdb_steps
LoadDisconnect ==
    /\ pc = "load_close"
    /\ loaderOpen' = FALSE
    /\ IF ~last.raised
       THEN /\ results' = [results EXCEPT !.load = "stats"]
            /\ snap' = [snap EXCEPT !.duck = duck]
            /\ pc' = "transform"
            /\ failed' = failed
       ELSE /\ results' = results
            /\ snap' = snap
            /\ pc' = IF Exhausted("load", tries.load)
                     THEN Propagate("load") ELSE "load"
            /\ failed' = IF Exhausted("load", tries.load)
                         THEN "load" ELSE failed
    /\ UNCHANGED <<opts, tries, signals, paused, dbtRunning>>
    /\ UNCHANGED dataVars

\* Step 3, skipped
SkipTransform ==
    /\ pc = "transform"
    /\ opts.skip_transform
    /\ results' = [results EXCEPT !.transform = "skipped"]
    /\ pc' = "unwind"
    /\ UNCHANGED <<opts, tries, signals, paused, loaderOpen, dbtRunning,
                   failed, snap>>
    /\ UNCHANGED dataVars

\* Step 3: transform_task starts the dbt build subprocess
DbtStart ==
    /\ pc = "transform"
    /\ ~opts.skip_transform
    /\ dbtRunning' = TRUE
    /\ tries' = [tries EXCEPT !.transform = @ + 1]
    /\ pc' = "dbt"
    /\ UNCHANGED <<opts, results, signals, paused, loaderOpen, failed, snap>>
    /\ UNCHANGED dataVars

\* Step 3: the subprocess ends with a return code; a non-zero code raises
\* RuntimeError
DbtExit(returncode) ==
    /\ pc = "dbt"
    /\ dbtRunning' = FALSE
    /\ IF returncode = 0 /\ StatsRead(results.load) = "none"
       THEN /\ results' = [results EXCEPT !.transform = "stats"]
            /\ pc' = "unwind"
            /\ failed' = failed
       ELSE /\ results' = results
            /\ pc' = IF Exhausted("transform", tries.transform)
                     THEN Propagate("transform") ELSE "transform"
            /\ failed' = IF Exhausted("transform", tries.transform)
                         THEN "transform" ELSE failed
    /\ UNCHANGED <<opts, tries, signals, paused, loaderOpen, snap>>
    /\ UNCHANGED dataVars

\* if paused: resume_metabase(logger)
ShouldResume(p) == p

\* the finally clause of metabase_paused, then the flow returns the results
\* or the exception of the critical section leaves it
ResumeMetabase(out) ==
    /\ pc = "unwind"
    /\ Coordinated(opts)
    /\ LET r == IF ShouldResume(paused)
                THEN RunDockerCommand("start", out)
                ELSE [log |-> <<>>, success |-> TRUE, raised |-> FALSE]
       IN  /\ signals' = signals \o r.log
           /\ failed' = IF r.raised THEN "resume" ELSE failed
           /\ pc' = IF failed' # "none" THEN "raised" ELSE "done"
    /\ UNCHANGED <<opts, results, tries, paused, loaderOpen, dbtRunning, snap>>
    /\ UNCHANGED dataVars

\* _run_duckdb_steps without coordination has ended
LeaveUncoordinated ==
    /\ pc = "unwind"
    /\ ~Coordinated(opts)
    /\ pc' = IF failed # "none" THEN "raised" ELSE "done"
    /\ UNCHANGED <<opts, results, tries, signals, paused, loaderOpen,
                   dbtRunning, failed, snap>>
    /\ UNCHANGED dataVars

\* ------------------------------------------------------------ text and time
\* A Python str is the sequence of its pieces; a piece is a word, a digit
\* or a punctuation mark.  A datetime is its wall-clock reading and its
\* tzinfo: kind "naive" has no tzinfo, kind "aware" has the fixed offset
\* off, kind "none" is None.  The clock counts half days.
Quote == "\""

Digits == <<"0", "1", "2", "3", "4", "5", "6", "7", "8", "9">>

IsDigit(piece) == \E i \in 1..Len(Digits) : Digits[i] = piece

DigitValue(piece) == CHOOSE n \in 0..(Len(Digits) - 1) : Digits[n + 1] = piece

Offsets == (0 - MaxOffset)..MaxOffset
Walls == 0..MaxWall

NoDatetime == [kind |-> "none", wall |-> 0, off |-> 0]
Naive(wall) == [kind |-> "naive", wall |-> wall, off |-> 0]
Aware(wall, off) == [kind |-> "aware", wall |-> wall, off |-> off]

AwareTimes == {Aware(w, o) : w \in Walls, o \in Offsets}

\* the point in time an aware datetime denotes, on the UTC clock
Instant(dt) == dt.wall - dt.off

\* datetime.date(): the day of the wall-clock reading
DateOf(dt) == dt.wall \div DayLength

\* isoformat without the UTC offset
IsoFormat_NoZone(dt) == <<Digits[dt.wall + 1]>>

\* datetime.isoformat(): the wall-clock reading, then the offset of an
\* aware datetime with its sign
IsoFormat(dt) ==
    IF dt.kind = "naive" THEN <<Digits[dt.wall + 1]>>
    ELSE <<Digits[dt.wall + 1],
           IF dt.off < 0 THEN "-" ELSE "+",
           Digits[(IF dt.off < 0 THEN 0 - dt.off ELSE dt.off) + 1]>>

\* datetime.fromisoformat(text): ok is FALSE where it raises ValueError
FromIsoFormat(text) ==
    IF Len(text) = 1 /\ IsDigit(text[1])
    THEN [ok |-> TRUE, dt |-> Naive(DigitValue(text[1]))]
    ELSE IF /\ Len(text) = 3
            /\ IsDigit(text[1]) /\ text[2] \in {"+", "-"} /\ IsDigit(text[3])
    THEN [ok |-> TRUE,
          dt |-> Aware(DigitValue(text[1]),
                       IF text[2] = "-" THEN 0 - DigitValue(text[3])
                       ELSE DigitValue(text[3]))]
    ELSE [ok |-> FALSE, dt |-> NoDatetime]

\* ------------------------------------------------------------ json
\* The values json.loads can return for the texts of the watermark file:
\* a scalar [k, s] (k is null, num, str or array; s the pieces of a string
\* or the digit of a number) or an object, the sequence of its members.
KeyLast == "\"last_extracted_at\":"
KeyUpdated == "\"updated_at\":"
KeyOther == "\"note\":"
Keys == {KeyLast, KeyUpdated, KeyOther}

JsonNull == [k |-> "null", s |-> <<>>]

NoScalar == [ok |-> FALSE, next |-> 0, v |-> JsonNull]

\* the scalar that starts at position i of the text, and where it ends
JsonScalar(text, i) ==
    IF i > Len(text) THEN NoScalar
    ELSE IF text[i] = "null"
    THEN [ok |-> TRUE, next |-> i + 1, v |-> JsonNull]
    ELSE IF IsDigit(text[i])
    THEN [ok |-> TRUE, next |-> i + 1, v |-> [k |-> "num", s |-> <<text[i]>>]]
    ELSE IF text[i] = "["
    THEN IF i + 1 <= Len(text) /\ text[i + 1] = "]"
         THEN [ok |-> TRUE, next |-> i + 2, v |-> [k |-> "array", s |-> <<>>]]
         ELSE NoScalar
    ELSE IF text[i] = Quote
    THEN LET closing == {j \in (i + 1)..Len(text) : text[j] = Quote}
         IN  IF closing = {} THEN NoScalar
             ELSE LET j == CHOOSE c \in closing : \A d \in closing : c <= d
                  IN  [ok |-> TRUE, next |-> j + 1,
                       v |-> [k |-> "str", s |-> SubSeq(text, i + 1, j - 1)]]
    ELSE NoScalar

JsonError == [err |-> TRUE, kind |-> "error", members |-> <<>>, v |-> JsonNull]
JsonObject(members) ==
    [err |-> FALSE, kind |-> "object", members |-> members, v |-> JsonNull]

\* the members of an object from position i on, up to the closing brace,
\* which has to be the end of the text
RECURSIVE JsonMembers(_, _, _)
JsonMembers(text, i, acc) ==
    IF i > Len(text) \/ text[i] \notin Keys THEN JsonError
    ELSE LET val == JsonScalar(text, i + 1)
         IN  IF ~val.ok \/ val.next > Len(text) THEN JsonError
             ELSE LET acc1 == Append(acc, [key |-> text[i], v |-> val.v])
                  IN  IF text[val.next] = "}"
                      THEN IF val.next = Len(text) THEN JsonObject(acc1)
                           ELSE JsonError
                      ELSE IF text[val.next] = ","
                      THEN JsonMembers(text, val.next + 1, acc1)
                      ELSE JsonError

\* json.loads(text): err is TRUE where it raises JSONDecodeError
JsonLoads(text) ==
    IF text = <<>> THEN JsonError
    ELSE IF text[1] = "{"
    THEN IF Len(text) >= 2 /\ text[2] = "}"
         THEN IF Len(text) = 2 THEN JsonObject(<<>>) ELSE JsonError
         ELSE JsonMembers(text, 2, <<>>)
    ELSE LET val == JsonScalar(text, 1)
         IN  IF val.ok /\ val.next = Len(text) + 1
             THEN [err |-> FALSE, kind |-> "scalar", members |-> <<>>,
                   v |-> val.v]
             ELSE JsonError

\* dict.get(key): the value of the last member with the key, else None
DictGet(members, key) ==
    LET hit == {i \in 1..Len(members) : members[i].key = key}
    IN  IF hit = {} THEN JsonNull
        ELSE members[CHOOSE i \in hit : \A j \in hit : j <= i].v

\* bool(value) of a value read from JSON
Truthy(v) ==
    \/ v.k = "str" /\ v.s /= <<>>
    \/ v.k = "num" /\ v.s /= <<"0">>

\* ------------------------------------------------------------ HighWaterMark file
\* what a call returned: raised names the exception that left the call,
\* "none" when it returned value
Returned(value) == [raised |-> "none", value |-> value]
Raises(exception) == [raised |-> exception, value |-> NoDatetime]

\* except (json.JSONDecodeError, ValueError)
GetCatches == {"JSONDecodeError", "ValueError"}

\* the try block of get on the text read from the file
GetParse(text) ==
    LET data == JsonLoads(text)
        ts == DictGet(data.members, KeyLast)
        parsed == FromIsoFormat(ts.s)
    IN  IF data.err THEN Raises("JSONDecodeError")
        ELSE IF data.kind /= "object" THEN Raises("AttributeError")
        ELSE IF ~Truthy(ts) THEN Returned(NoDatetime)
        ELSE IF ts.k /= "str" THEN Raises("TypeError")
        ELSE IF ~parsed.ok THEN Raises("ValueError")
        ELSE Returned(parsed.dt)

\* get, once the text is read: the exceptions of the except clause are
\* logged and None is returned, every other exception leaves get
GetFromText(text) ==
    LET r == GetParse(text)
    IN  IF r.raised \in GetCatches THEN Returned(NoDatetime) ELSE r

\* HighWaterMark.get on a file nobody is writing
HighWaterMarkGet(exists, text) ==
    IF ~exists THEN Returned(NoDatetime) ELSE GetFromText(text)

\* json.dumps(data) of set: an object with last_extracted_at and updated_at
SetData(timestamp, updated) ==
    <<"{", KeyLast, Quote>> \o IsoFormat(timestamp) \o
    <<Quote, ",", KeyUpdated, Quote>> \o IsoFormat(updated) \o
    <<Quote, "}">>

\* opening the file for update: the text stays as it is
OpenForWrite_Keep(text) == text

\* open(path, "w") of write_text: the file is created or cut to length 0
OpenForWrite(text) == <<>>

\* write(chunk) at position pos of the file
WriteAt(text, pos, chunk) ==
    SubSeq(text, 1, pos) \o chunk \o SubSeq(text, pos + Len(chunk) + 1, Len(text))

NoResult == Returned(NoDatetime)

FileIdle ==
    /\ hwmExists = FALSE
    /\ hwmParent = FALSE
    /\ hwmText = <<>>
    /\ setPc = "idle"
    /\ setArg = NoDatetime
    /\ setBuf = <<>>
    /\ sets = 0
    /\ held = NoDatetime
    /\ getPc = "idle"
    /\ getBuf = <<>>
    /\ getResult = NoResult
    /\ getCands = {}
    /\ getSets = 0


getVars == <<getPc, getBuf, getResult, getCands, getSets>>
setVars == <<setPc, setArg, setBuf, sets, held>>

\* set(timestamp), up to the call of write_text: the parent directories
\* are made, the text is built
SetCall(timestamp) ==
    /\ setPc = "idle"
    /\ sets < MaxSets
    /\ hwmParent' = TRUE
    /\ setArg' = timestamp
    /\ setBuf' = SetData(timestamp, Aware(now, 0))
    /\ setPc' = "open"
    /\ getCands' = IF getPc = "reading" THEN getCands \cup {timestamp}
                   ELSE getCands
    /\ getSets' = getSets + 1
    /\ UNCHANGED <<hwmExists, hwmText, sets, held, getPc, getBuf, getResult>>

\* write_text opens the file
SetOpen ==
    /\ setPc = "open"
    /\ hwmExists' = TRUE
    /\ hwmText' = OpenForWrite(hwmText)
    /\ setPc' = "write"
    /\ UNCHANGED <<hwmParent, setArg, setBuf, sets, held, getVars>>

\* write_text writes: the text reaches the file chunk by chunk
SetWrite ==
    /\ setPc = "write"
    /\ setBuf /= <<>>
    /\ LET pos == Len(SetData(setArg, Aware(now, 0))) - Len(setBuf)
           k == IF Len(setBuf) < ChunkLength THEN Len(setBuf) ELSE ChunkLength
       IN  /\ hwmText' = WriteAt(hwmText, pos, SubSeq(setBuf, 1, k))
           /\ setBuf' = SubSeq(setBuf, k + 1, Len(setBuf))
    /\ UNCHANGED <<hwmExists, hwmParent, setPc, setArg, sets, held, getVars>>

\* write_text closes the file and set returns
SetReturn ==
    /\ setPc = "write"
    /\ setBuf = <<>>
    /\ setPc' = "idle"
    /\ sets' = sets + 1
    /\ held' = setArg
    /\ UNCHANGED <<hwmExists, hwmParent, hwmText, setArg, setBuf, getVars>>

\* get is called: None when the file does not exist, else the file is
\* opened for reading
GetCall ==
    /\ getPc \in {"idle", "done"}
    /\ getBuf' = <<>>
    /\ getCands' = {held} \cup (IF setPc = "idle" THEN {} ELSE {setArg})
    /\ getSets' = IF setPc = "idle" THEN 0 ELSE 1
    /\ IF hwmExists
       THEN getPc' = "reading" /\ getResult' = NoResult
       ELSE getPc' = "done" /\ getResult' = Returned(NoDatetime)
    /\ UNCHANGED <<hwmExists, hwmParent, hwmText, setVars>>

\* read_text reads until a read returns nothing, then get parses the text
GetRead ==
    /\ getPc = "reading"
    /\ LET more == SubSeq(hwmText, Len(getBuf) + 1, Len(hwmText))
       IN  IF more /= <<>>
           THEN getBuf' = getBuf \o more /\ UNCHANGED <<getPc, getResult>>
           ELSE /\ getPc' = "done"
                /\ getResult' = GetFromText(getBuf)
                /\ UNCHANGED getBuf
    /\ UNCHANGED <<hwmExists, hwmParent, hwmText, setVars, getCands, getSets>>

\* ------------------------------------------------------- normalizer values
\* A value of a document field is [k, s]: k is absent (no such key), null,
\* str, num, or list for a content that is a list; s holds the pieces of a
\* string or the digit of a number.
Absent == [k |-> "absent", s |-> <<>>]
None == JsonNull
Str(s) == [k |-> "str", s |-> s]
Num(n) == [k |-> "num", s |-> <<Digits[n + 1]>>]
ListValue == [k |-> "list", s |-> <<>>]

\* dict.get(key): None for a key that is not there
GetOrNone(v) == IF v.k = "absent" THEN None ELSE v

\* dict.get(key, default)
GetOr(v, default) == IF v.k = "absent" THEN default ELSE v

\* the text an f-string or str() makes of a value
Format(v) == IF v.k = "null" THEN <<"None">> ELSE v.s

\* separator.join(parts), for parts that are all strings
RECURSIVE JoinStrings(_, _)
JoinStrings(parts, separator) ==
    IF parts = <<>> THEN <<>>
    ELSE IF Len(parts) = 1 THEN parts[1]
    ELSE parts[1] \o separator \o JoinStrings(Tail(parts), separator)

\* a content block: a dict with the keys type, text and name (each may be
\* missing), a bare string, or a number
DictBlock(type, text, name) ==
    [shape |-> "dict", type |-> type, text |-> text, name |-> name, s |-> <<>>]
StrBlock(s) ==
    [shape |-> "str", type |-> "absent", text |-> Absent, name |-> Absent,
     s |-> s]
NumBlock(n) ==
    [shape |-> "num", type |-> "absent", text |-> Absent, name |-> Absent,
     s |-> <<Digits[n + 1]>>]

\* the message field: shape is absent, null, str, dict, list or num
Message(shape, s, role, content, blocks) ==
    [shape |-> shape, s |-> s, role |-> role, content |-> content,
     blocks |-> blocks]

\* ------------------------------------------------------- json.dumps
DumpValue(v) ==
    IF v.k = "null" THEN <<"null">>
    ELSE IF v.k = "str" THEN <<Quote>> \o v.s \o <<Quote>>
    ELSE v.s

DumpMember(key, v) == IF v.k = "absent" THEN <<>> ELSE <<<<key>> \o DumpValue(v)>>

DumpBlock(block) ==
    IF block.shape = "str" THEN <<Quote>> \o block.s \o <<Quote>>
    ELSE IF block.shape = "num" THEN block.s
    ELSE <<"{">> \o
         JoinStrings(DumpMember("\"type\":",
                                IF block.type = "absent" THEN Absent
                                ELSE Str(<<block.type>>))
                         \o DumpMember("\"text\":", block.text)
                         \o DumpMember("\"name\":", block.name),
                     <<",">>)
         \o <<"}">>

DumpList(blocks) ==
    <<"[">> \o JoinStrings([i \in 1..Len(blocks) |-> DumpBlock(blocks[i])], <<",">>)
            \o <<"]">>

\* json.dumps(message, default=str)
JsonDumps(message) ==
    IF message.shape = "dict"
    THEN <<"{">> \o
         JoinStrings(DumpMember("\"role\":", message.role)
                         \o (IF message.content.k = "absent" THEN <<>>
                             ELSE IF message.content.k = "list"
                             THEN <<<<"\"content\":">> \o DumpList(message.blocks)>>
                             ELSE DumpMember("\"content\":", message.content)),
                     <<",">>)
         \o <<"}">>
    ELSE IF message.shape = "list" THEN DumpList(message.blocks)
    ELSE IF message.shape = "str" THEN <<Quote>> \o message.s \o <<Quote>>
    ELSE message.s

\* ------------------------------------------------------- DocumentTransformer
\* what one block appends to text_parts: nothing, or one value
BlockParts(block) ==
    IF block.shape = "dict"
    THEN IF block.type = "text" THEN <<GetOr(block.text, Str(<<>>))>>
         ELSE IF block.type = "tool_use"
         THEN <<Str(<<"[tool_use: ">>
                    \o Format(GetOr(block.name, Str(<<"unknown">>)))
                    \o <<"]">>)>>
         ELSE IF block.type = "tool_result" THEN <<Str(<<"[tool_result]">>)>>
         ELSE <<>>
    ELSE IF block.shape = "str" THEN <<Str(block.s)>>
    ELSE <<>>

\* text_parts after the loop over the blocks
RECURSIVE TextParts(_)
TextParts(blocks) ==
    IF blocks = <<>> THEN <<>>
    ELSE BlockParts(Head(blocks)) \o TextParts(Tail(blocks))

\* bool(message) of a dict: it has a key
NonEmptyDict(message) ==
    message.role.k /= "absent" \/ message.content.k /= "absent"

Flattened(role, content, raw) ==
    [raised |-> "none", role |-> role, content |-> content, raw |-> raw]

FlattenRaises(exception) ==
    [raised |-> exception, role |-> None, content |-> None, raw |-> None]

\* flatten_message: role, content and raw_json, or the exception
FlattenMessage(message) ==
    IF message.shape \in {"absent", "null"} THEN Flattened(None, None, None)
    ELSE IF message.shape = "str" THEN Flattened(None, Str(message.s), None)
    ELSE IF message.shape = "dict"
    THEN LET role == GetOrNone(message.role)
             content == GetOrNone(message.content)
             text_parts == TextParts(message.blocks)
             raw_json == IF NonEmptyDict(message) THEN Str(JsonDumps(message))
                         ELSE None
         IN  IF content.k = "list"
             THEN IF text_parts = <<>> THEN Flattened(role, None, raw_json)
                  \* "\n".join raises TypeError on an item that is no str
                  ELSE IF \E i \in 1..Len(text_parts) : text_parts[i].k /= "str"
                  THEN FlattenRaises("TypeError")
                  ELSE Flattened(role,
                                 Str(JoinStrings([i \in 1..Len(text_parts) |->
                                                     text_parts[i].s],
                                                 <<"\n">>)),
                                 raw_json)
             ELSE IF content.k = "str" THEN Flattened(role, content, raw_json)
             ELSE IF content.k = "null" THEN Flattened(role, None, raw_json)
             ELSE Flattened(role, Str(Format(content)), raw_json)
    ELSE Flattened(None, None, Str(JsonDumps(message)))

\* a timestamp field of a document: k is absent, null, datetime, str or num
NoStamp == [k |-> "absent", dt |-> NoDatetime, s |-> <<>>]
NullStamp == [k |-> "null", dt |-> NoDatetime, s |-> <<>>]
DatetimeStamp(dt) == [k |-> "datetime", dt |-> dt, s |-> <<>>]
StrStamp(s) == [k |-> "str", dt |-> NoDatetime, s |-> s]
NumStamp(n) == [k |-> "num", dt |-> NoDatetime, s |-> <<Digits[n + 1]>>]

\* ts.replace("Z", "+00:00")
RECURSIVE ReplaceZ(_)
ReplaceZ(text) ==
    IF text = <<>> THEN <<>>
    ELSE (IF Head(text) = "Z" THEN <<"+", "0">> ELSE <<Head(text)>>)
             \o ReplaceZ(Tail(text))

\* astimezone(timezone.utc): the same instant, read on the UTC clock
AsUtc(dt) == Aware(Instant(dt), 0)

\* dt.replace(tzinfo=timezone.utc) if dt.tzinfo is None else dt
TzOrUtc(dt) == IF dt.kind = "naive" THEN Aware(dt.wall, 0) ELSE dt

\* parse_timestamp
ParseTimestamp(ts) ==
    IF ts.k \in {"absent", "null"} THEN NoDatetime
    ELSE IF ts.k = "datetime" THEN TzOrUtc(ts.dt)
    ELSE IF ts.k = "str"
    THEN LET parsed == FromIsoFormat(ReplaceZ(ts.s))
         IN  IF parsed.ok THEN TzOrUtc(parsed.dt)
             ELSE NoDatetime     \* except ValueError: return None
    ELSE NoDatetime

\* PartitionDate that prefers the ingestion timestamp
PartitionDate_IngestedFirst(timestamp, ingested_at, extracted_at) ==
    IF ingested_at.kind /= "none" THEN DateOf(ingested_at)
    ELSE IF timestamp.kind /= "none" THEN DateOf(timestamp)
    ELSE DateOf(extracted_at)

\* partition_date of transform
PartitionDate(timestamp, ingested_at, extracted_at) ==
    IF timestamp.kind /= "none" THEN DateOf(timestamp)
    ELSE IF ingested_at.kind /= "none" THEN DateOf(ingested_at)
    ELSE DateOf(extracted_at)

Document(id, message, timestamp, ingestedAt) ==
    [id |-> id, message |-> message, timestamp |-> timestamp,
     ingestedAt |-> ingestedAt]

NoRecord ==
    [raised |-> "none", id |-> None, timestamp |-> NoDatetime,
     ingested_at |-> NoDatetime, extracted_at |-> NoDatetime,
     message_role |-> None, message_content |-> None, message_raw |-> None,
     date |-> 0]

\* DocumentTransformer.transform: the flat record of a document, or the
\* exception that leaves it
TransformDocument(document, extracted_at) ==
    LET flat == FlattenMessage(document.message)
        timestamp == ParseTimestamp(document.timestamp)
        ingested_at == ParseTimestamp(document.ingestedAt)
    IN  IF flat.raised /= "none"
        THEN [NoRecord EXCEPT !.raised = flat.raised]
        ELSE [raised |-> "none",
              id |-> Str(Format(GetOr(document.id, Str(<<>>)))),
              timestamp |-> timestamp,
              ingested_at |-> ingested_at,
              extracted_at |-> extracted_at,
              message_role |-> flat.role,
              message_content |-> flat.content,
              message_raw |-> flat.raw,
              date |-> PartitionDate(timestamp, ingested_at, extracted_at)]

NormIdle ==
    /\ srcDoc = Document(Absent, Message("absent", <<>>, Absent, Absent, <<>>),
                         NoStamp, NoStamp)
    /\ runTime = NoDatetime
    /\ normRecord = NoRecord
    /\ normPc = "idle"

\* one document goes through transform
TransformCall ==
    /\ normPc = "idle"
    /\ normRecord' = TransformDocument(srcDoc, runTime)
    /\ normPc' = IF normRecord'.raised = "none" THEN "returned" ELSE "raised"
    /\ UNCHANGED <<srcDoc, runTime>>


\* ------------------------------------------------------------ get_table_stats
Projects == {"p1", "p2"}
Types == {"user", "assistant"}

\* the date column of a row: the day of its ingestion timestamp, else of
\* its extraction; NULL in a row that has neither
RowDate(row) == IF row.ing /= NoTs THEN row.ing ELSE row.ext

\* SELECT key, COUNT(*) ... GROUP BY key
\* (column gives the value of the grouping column of the row of each _id)
GroupCounts(rows, column) ==
    {[key |-> k,
      count |-> Cardinality({i \in 1..Len(rows) : column[rows[i].id] = k})] :
        k \in {column[rows[i].id] : i \in 1..Len(rows)}}

\* ORDER BY count DESC LIMIT n
TopGroups(groups, n) ==
    {g \in groups : Cardinality({h \in groups : h.count > g.count}) < n}

\* StatsCatches catching nothing
StatsCatches_Nothing == {}

\* except duckdb.CatalogException, in _get_row_count and in get_table_stats
StatsCatches == {"CatalogException"}

\* what a query on raw.conversations raises
QueryRaises == IF tableExists THEN "none" ELSE "CatalogException"

NoRange == [present |-> FALSE, min |-> NoTs, max |-> NoTs, count |-> 0]
NoGroups == [present |-> FALSE, groups |-> {}]

StatsResult(fault, raised, row_count, tables, date_range, top_projects, types) ==
    [op |-> "stats", fault |-> fault, raised |-> raised,
     row_count |-> row_count, tables |-> tables, date_range |-> date_range,
     top_projects |-> top_projects, type_distribution |-> types]

NoStats ==
    [op |-> "none", fault |-> "none", raised |-> "none", row_count |-> 0,
     tables |-> <<>>, date_range |-> NoRange, top_projects |-> NoGroups,
     type_distribution |-> NoGroups]

StatsRaises(fault, exception) ==
    StatsResult(fault, exception, 0, <<>>, NoRange, NoGroups, NoGroups)

\* get_table_stats: the dictionary it returns, or the exception
TableStats(fault) ==
    LET dates == {RowDate(duck[i]) : i \in 1..Len(duck)} \ {NoTs}
        min_date == IF dates = {} THEN NoTs
                    ELSE CHOOSE d \in dates : \A e \in dates : d <= e
        max_date == IF dates = {} THEN NoTs
                    ELSE CHOOSE d \in dates : \A e \in dates : e <= d
        project_id == [i \in Ids |-> columns[i].project_id]
        type == [i \in Ids |-> columns[i].type]
    IN  IF fault = "connect" THEN StatsRaises(fault, "IOException")
        ELSE IF QueryRaises = "none"
        THEN StatsResult(fault, "none", Len(duck),
                 <<[schema |-> "raw", name |-> "conversations",
                    rows |-> Len(duck)]>>,
                 IF min_date /= NoTs
                 THEN [present |-> TRUE, min |-> min_date, max |-> max_date,
                       count |-> Cardinality(dates)]
                 ELSE NoRange,
                 [present |-> TRUE,
                  groups |-> TopGroups(GroupCounts(duck, project_id),
                                       TOP_PROJECTS_LIMIT)],
                 [present |-> TRUE, groups |-> GroupCounts(duck, type)])
        ELSE IF QueryRaises \in StatsCatches
        THEN StatsResult(fault, "none", 0, <<>>, NoRange, NoGroups, NoGroups)
        ELSE StatsRaises(fault, QueryRaises)

StatIdle ==
    /\ columns = [i \in Ids |-> [project_id |-> "p1", type |-> "user"]]
    /\ stats = NoStats

\* loader.get_table_stats()
GetTableStats(fault) ==
    /\ stats' = TableStats(fault)
    /\ UNCHANGED <<dataVars, columns>>

\* ------------------------------------------------------------ create_database
\* the objects the statements of create_database name, in the order of the
\* statements: CREATE_RAW_SCHEMA, CREATE_CONVERSATIONS_TABLE, CREATE_INDEXES
CreateStatements ==
    <<"raw", "raw.conversations", "idx_conversations_project_id",
      "idx_conversations_session_id", "idx_conversations_date",
      "idx_conversations_type", "idx_conversations_timestamp">>

SchemaObjects == {CreateStatements[i] : i \in 1..Len(CreateStatements)}

\* ExecuteCreate without IF NOT EXISTS: an object that exists is an error
ExecuteCreate_Plain(cat, name) ==
    IF name \in cat
    THEN [raised |-> "CatalogException", catalog |-> cat]
    ELSE [raised |-> "none", catalog |-> cat \cup {name}]

\* CREATE SCHEMA / TABLE / INDEX IF NOT EXISTS name: an object that exists
\* is left as it is
ExecuteCreate(cat, name) ==
    IF name \in cat
    THEN [raised |-> "none", catalog |-> cat]
    ELSE [raised |-> "none", catalog |-> cat \cup {name}]

\* the statements of create_database from the i-th on; the first statement
\* that raises ends the call
RECURSIVE RunStatements(_, _)
RunStatements(cat, i) ==
    IF i > Len(CreateStatements) THEN [raised |-> "none", catalog |-> cat]
    ELSE LET r == ExecuteCreate(cat, CreateStatements[i])
         IN  IF r.raised /= "none" THEN r ELSE RunStatements(r.catalog, i + 1)

NoCreate == [op |-> "none", fault |-> "none", raised |-> "none", before |-> {}]

SchemaIdle ==
    /\ catalog = {}
    /\ creates = 0
    /\ created = NoCreate

\* create_database(): self.conn connects when there is no connection, which
\* may fail; then the statements run
CreateDatabaseCall(fault) ==
    LET r == IF fault = "connect"
             THEN [raised |-> "IOException", catalog |-> catalog]
             ELSE RunStatements(catalog, 1)
    IN  /\ creates < MaxCreates
        /\ creates' = creates + 1
        /\ catalog' = r.catalog
        /\ created' = [op |-> "create", fault |-> fault, raised |-> r.raised,
                       before |-> catalog]
        /\ tableExists' = ("raw.conversations" \in r.catalog)
        /\ UNCHANGED <<source, now, hwmFile, icebergCreated, iceberg, duck,
                       last, prev>>

\* ------------------------------------------------------------ load_from_iceberg
\* the decimal digits of a version number, most significant first
RECURSIVE DigitsOf(_)
DigitsOf(n) == IF n < 10 THEN <<n>> ELSE Append(DigitsOf(n \div 10), n % 10)

\* the file name of a metadata file as the characters sorted() compares:
\* the version padded with zeros to PadWidth digits, then "-" and the rest
\* of the name; a digit stands for itself, and "-" (which sorts before
\* every digit) is -1
MetadataName(version) ==
    LET d == DigitsOf(version)
        pad == [i \in 1..(IF Len(d) < PadWidth THEN PadWidth - Len(d) ELSE 0) |-> 0]
    IN  pad \o d \o <<-1>>

\* a < b for file names, character by character
NameLess(a, b) ==
    \E i \in 1..Len(b) :
        /\ \A j \in 1..(i - 1) : j <= Len(a) /\ a[j] = b[j]
        /\ i > Len(a) \/ a[i] < b[i]

\* LatestMetadata by the number of the version
LatestMetadata_Numeric(versions) ==
    CHOOSE v \in versions : \A w \in versions : w <= v

\* sorted(metadata_dir.glob("*.metadata.json"), reverse=True)[0]: the file
\* whose name is the greatest
LatestMetadata(versions) ==
    CHOOSE v \in versions :
        \A w \in versions \ {v} : NameLess(MetadataName(w), MetadataName(v))

\* the records a metadata file describes: the file written last describes
\* every record appended, an earlier one does not hold the last record yet
ScanRecords(versions, version) ==
    IF \A w \in versions : w <= version THEN iceberg
    ELSE SubSeq(iceberg, 1, Len(iceberg) - 1)

\* MissingStorage that looks at the table path only
MissingStorage_PathOnly(path, dir, versions) == ~path

\* the three checks that raise FileNotFoundError: the table path, the
\* metadata directory, the metadata files in it
MissingStorage(path, dir, versions) == ~path \/ ~dir \/ versions = {}

NoVersion == -1

NoLoad ==
    [op |-> "none", full |-> FALSE, fault |-> "none", raised |-> "none",
     selected |-> NoVersion, count |-> 0, before |-> <<>>]

LoadIdle ==
    /\ tablePath = FALSE
    /\ metadataDir = FALSE
    /\ metaVersions = {}
    /\ loadOut = NoLoad

\* load_from_iceberg(path, full_refresh): the path check, create_database,
\* the Iceberg extension, the metadata checks, the choice of the metadata
\* file, the DELETE of a full refresh, the INSERT, the row counts
LoadFromIceberg(full_refresh, fault, dup) ==
    LET noPath == ~tablePath
        noConn == ~noPath /\ fault = "connect"
        schema == IF noPath \/ noConn THEN catalog
                  ELSE RunStatements(catalog, 1).catalog
        noExtension == ~noPath /\ fault = "extension"
        missing == MissingStorage(tablePath, metadataDir, metaVersions)
        early == noPath \/ noConn \/ noExtension \/ missing
        latest_metadata == IF metaVersions = {} THEN NoVersion
                           ELSE LatestMetadata(metaVersions)
        scanned == IF latest_metadata = NoVersion THEN <<>>
                   ELSE ScanRecords(metaVersions, latest_metadata)
        count_before == Len(duck)
        deleted == DeleteFrom(duck, full_refresh)
        rejected == fault = "insert" \/ (HasDuplicateIds(scanned) /\ dup = "raise")
        loaded == InsertOnConflictUpdate(deleted, scanned)
        count_after == Len(loaded)
        raised == CASE noPath -> "FileNotFoundError"
                    [] noConn \/ noExtension -> "IOException"
                    [] missing -> "FileNotFoundError"
                    [] fault = "insert" -> "IOException"
                    [] rejected -> "InvalidInputException"
                    [] OTHER -> "none"
    IN  /\ catalog' = schema
        /\ tableExists' = ("raw.conversations" \in schema)
        /\ duck' = IF early THEN duck ELSE IF rejected THEN deleted ELSE loaded
        /\ loadOut' = [op |-> "load", full |-> full_refresh, fault |-> fault,
                       raised |-> raised,
                       selected |-> IF early THEN NoVersion ELSE latest_metadata,
                       count |-> IF raised /= "none" THEN 0
                                 ELSE RowsLoaded(full_refresh, count_before,
                                                 count_after),
                       before |-> duck]
        /\ UNCHANGED <<source, now, hwmFile, icebergCreated, iceberg, last, prev>>
        /\ UNCHANGED <<creates, created, tablePath, metadataDir, metaVersions>>

\* ------------------------------------------------------- extract, step by step
\* the handles of the extractor: _client, _db, _collection, and whether
\* the MongoClient holds a connection that was not closed
NoHandles ==
    [client |-> "None", db |-> "None", collection |-> "None", open |-> FALSE]

\* MongoDisconnect resetting the client only
MongoDisconnect_ClientOnly(h) ==
    IF h.client /= "None" THEN [h EXCEPT !.client = "None", !.open = FALSE] ELSE h

\* disconnect(): if self._client: close it, reset the three handles
MongoDisconnect(h) == IF h.client /= "None" THEN NoHandles ELSE h

\* BatchFull that lets the batch grow one record beyond the size
BatchFull_Greater(records, batch_size) == Len(records) > batch_size

\* len(batch) >= self.settings.pipeline.batch_size
BatchFull(records, batch_size) == Len(records) >= batch_size

NoLocals ==
    [full |-> FALSE, since |-> NoTs, bs |-> 1, extracted_at |-> NoTs,
     batch |-> <<>>, total |-> 0, latest |-> NoTs, exc |-> "none",
     result |-> 0, iceberg0 |-> <<>>, hwm0 |-> NoTs]

RunIdle ==
    /\ xPc = "idle"
    /\ xLoc = NoLocals
    /\ cursor = <<>>
    /\ fetched = <<>>
    /\ flushed = <<>>
    /\ mongo = NoHandles

\* an exception inside the try block: control goes to the finally clause
RaiseInTry(exception) ==
    /\ xLoc' = [xLoc EXCEPT !.exc = exception]
    /\ xPc' = "finally"

\* extract(full_backfill) up to the try block: the Iceberg table is loaded
\* or created, since is read from the high water mark, the locals are
\* set; an exception here leaves extract at once
ExtractCall(full_backfill, batch_size, fault) ==
    /\ xPc = "idle"
    /\ pc = "idle"
    /\ IF fault = "catalog"
       THEN /\ xLoc' = [xLoc EXCEPT !.full = full_backfill, !.exc = "catalog",
                                    !.iceberg0 = iceberg, !.hwm0 = hwmFile]
            /\ xPc' = "raised"
            /\ icebergCreated' = icebergCreated
       ELSE /\ xLoc' = [NoLocals EXCEPT
                           !.full = full_backfill,
                           !.since = IF ~full_backfill THEN HwmGet(hwmFile)
                                     ELSE NoTs,
                           !.bs = batch_size,
                           !.extracted_at = now,
                           !.iceberg0 = iceberg, !.hwm0 = hwmFile]
            /\ xPc' = "connect"
            /\ icebergCreated' = TRUE
    /\ UNCHANGED <<source, now, hwmFile, iceberg, tableExists, duck, last, prev>>
    /\ UNCHANGED <<cursor, fetched, flushed, mongo>>

\* self.connect(): MongoClient(uri) may raise before a handle is set; the
\* ping may raise after the three handles are set. docs is what the cursor
\* of _fetch_documents(since) is going to yield
MongoConnect(fault, docs) ==
    /\ xPc = "connect"
    /\ docs \in FetchDocuments(xLoc.since)
    /\ CASE fault = "client" ->
              /\ mongo' = mongo
              /\ cursor' = cursor
              /\ RaiseInTry("client")
         [] fault = "ping" ->
              /\ mongo' = [client |-> "set", db |-> "set", collection |-> "set",
                           open |-> TRUE]
              /\ cursor' = cursor
              /\ RaiseInTry("ping")
         [] OTHER ->
              /\ mongo' = [client |-> "set", db |-> "set", collection |-> "set",
                           open |-> TRUE]
              /\ cursor' = docs
              /\ xPc' = "fetch"
              /\ xLoc' = xLoc
    /\ UNCHANGED <<fetched, flushed>>
    /\ UNCHANGED dataVars

\* one pass of the for loop up to the test of the batch size: the cursor
\* raises, or is exhausted, or yields the next document, which is
\* transformed, put into the batch and counted
FetchNext(fault) ==
    /\ xPc = "fetch"
    /\ IF fault = "cursor"
       THEN /\ RaiseInTry("cursor")
            /\ UNCHANGED <<cursor, fetched>>
       ELSE IF cursor = <<>>
       THEN /\ xPc' = "rest"
            /\ UNCHANGED <<xLoc, cursor, fetched>>
       ELSE LET record == Transform(Head(cursor), xLoc.extracted_at)
                batch == Append(xLoc.batch, record)
            IN  /\ xLoc' = [xLoc EXCEPT
                               !.batch = batch,
                               !.latest = TrackLatest(xLoc.latest, record.ing),
                               !.total = xLoc.total + 1]
                /\ fetched' = Append(fetched, Head(cursor))
                /\ cursor' = Tail(cursor)
                /\ xPc' = IF BatchFull(batch, xLoc.bs) THEN "flush" ELSE "fetch"
    /\ UNCHANGED <<flushed, mongo>>
    /\ UNCHANGED dataVars

\* _write_to_iceberg(batch, table): one append of the records, or an
\* exception; nothing is appended for an empty list
WriteBatch(fault, next) ==
    IF fault = "append" /\ xLoc.batch /= <<>>
    THEN /\ RaiseInTry("append")
         /\ UNCHANGED <<iceberg, flushed>>
    ELSE /\ iceberg' = TableAppend(iceberg, xLoc.batch)
         /\ flushed' = IF xLoc.batch = <<>> THEN flushed
                       ELSE Append(flushed, xLoc.batch)
         /\ xLoc' = [xLoc EXCEPT !.batch = <<>>]
         /\ xPc' = next

\* the batch has reached the size: it is written and batch = []
Flush(fault) ==
    /\ xPc = "flush"
    /\ WriteBatch(fault, "fetch")
    /\ UNCHANGED <<source, now, hwmFile, icebergCreated, tableExists, duck,
                   last, prev>>
    /\ UNCHANGED <<cursor, fetched, mongo>>

\* after the loop: if batch: the remaining records are written
WriteRemaining(fault) ==
    /\ xPc = "rest"
    /\ WriteBatch(fault, "mark")
    /\ UNCHANGED <<source, now, hwmFile, icebergCreated, tableExists, duck,
                   last, prev>>
    /\ UNCHANGED <<cursor, fetched, mongo>>

\* if latest_ingested_at: self.high_water_mark.set(latest_ingested_at)
SetMark(fault) ==
    /\ xPc = "mark"
    /\ IF fault = "set" /\ xLoc.latest /= NoTs
       THEN /\ RaiseInTry("set")
            /\ hwmFile' = hwmFile
       ELSE /\ hwmFile' = IF xLoc.latest /= NoTs
                          THEN HwmSet(hwmFile, xLoc.latest) ELSE hwmFile
            /\ xPc' = "finally"
            /\ xLoc' = xLoc
    /\ UNCHANGED <<source, now, icebergCreated, iceberg, tableExists, duck,
                   last, prev>>
    /\ UNCHANGED <<cursor, fetched, flushed, mongo>>

\* finally: self.disconnect(); then return total_count, or the exception
\* leaves extract
ExtractFinally ==
    /\ xPc = "finally"
    /\ mongo' = MongoDisconnect(mongo)
    /\ xPc' = IF xLoc.exc /= "none" THEN "raised" ELSE "returned"
    /\ xLoc' = [xLoc EXCEPT !.result = IF xLoc.exc /= "none" THEN 0
                                       ELSE xLoc.total]
    /\ UNCHANGED <<cursor, fetched, flushed>>
    /\ UNCHANGED dataVars

\* load_task is called, after extract_task has ended
LoadTaskCall(o) ==
    /\ pc = "idle"
    /\ xPc \in {"returned", "raised"}
    /\ ~o.skip_load
    /\ opts' = o
    /\ pc' = "load"
    /\ UNCHANGED <<results, tries, signals, paused, loaderOpen, dbtRunning,
                   failed, snap>>
    /\ UNCHANGED dataVars

MoreIdle == SchemaIdle /\ LoadIdle /\ RunIdle

AuxIdle == FileIdle /\ NormIdle /\ StatIdle /\ MoreIdle

\* ------------------------------------------------------------ specification
\* rows a database file may hold from before this warehouse existed: no
\* row, or one row without timestamps
PriorTables ==
    {<<>>, <<[id |-> 1, ing |-> NoTs, ext |-> NoTs]>>}

\* a fresh deployment: empty source, no high water mark file, no Iceberg
\* table; the DuckDB file is new or holds rows of an earlier warehouse
Init ==
    /\ source = {}
    /\ now = 1
    /\ hwmFile = NoTs
    /\ icebergCreated = FALSE
    /\ iceberg = <<>>
    /\ duck \in PriorTables
    /\ tableExists = (duck /= <<>>)
    /\ last = NoOutcome
    /\ prev = Brief(NoOutcome)
    /\ ConnIdle
    /\ PipeIdle
    /\ AuxIdle

ExtractStep ==
    /\ \E full \in BOOLEAN :
        \E docs \in FetchDocuments(IF ~full THEN HwmGet(hwmFile) ELSE NoTs) :
            \E bs \in (IF docs = <<>> THEN {1} ELSE 1..MaxBatch) :
                \E fault \in {f \in ExtractFaults : CanOccur(f, Len(docs), bs)} :
                    Extract(full, fault, docs, bs)
    /\ UNCHANGED <<connVars, pipeVars, auxVars>>

LoadStep ==
    /\ \E full \in BOOLEAN, fault \in LoadFaults :
        \E dup \in (IF fault = "none" /\ HasDuplicateIds(iceberg)
                    THEN DupOutcomes ELSE {"apply"}) :
            Load(full, fault, dup)
    /\ UNCHANGED <<connVars, pipeVars, auxVars>>

CreateStep ==
    /\ \E fault \in {"none", "connect"} : CreateDatabase(fault)
    /\ UNCHANGED <<connVars, pipeVars, auxVars>>

InsertStep ==
    /\ \E id \in Ids, ing \in {NoTs} \cup 1..now : InsertDocument(id, ing)
    /\ UNCHANGED <<connVars, pipeVars, auxVars>>

TickStep == Tick /\ UNCHANGED <<connVars, pipeVars, auxVars>>

Next == ExtractStep \/ LoadStep \/ CreateStep \/ InsertStep \/ TickStep

Spec == Init /\ [][Next]_vars

\* connect on its own: the loader connects and disconnects again and again
NoData ==
    /\ source = {}
    /\ now = 1
    /\ hwmFile = NoTs
    /\ icebergCreated = FALSE
    /\ iceberg = <<>>
    /\ duck = <<>>
    /\ tableExists = FALSE
    /\ last = NoOutcome
    /\ prev = Brief(NoOutcome)

ConnectInit == NoData /\ ConnIdle /\ PipeIdle /\ AuxIdle

ConnectCallStep == ConnectCall /\ UNCHANGED <<dataVars, pipeVars, auxVars>>

ConnectSucceedsStep == ConnectSucceeds /\ UNCHANGED <<dataVars, pipeVars, auxVars>>

ConnectFailsStep ==
    /\ \E e \in Errors : ConnectFails(e)
    /\ UNCHANGED <<dataVars, pipeVars, auxVars>>

DisconnectStep == Disconnect /\ UNCHANGED <<dataVars, pipeVars, auxVars>>

ConnectNext ==
    ConnectCallStep \/ ConnectSucceedsStep \/ ConnectFailsStep \/ DisconnectStep

ConnectSpec == ConnectInit /\ [][ConnectNext]_vars

\* one run of the flow, over stores an earlier run may have filled: a
\* fresh deployment with one document to extract, or a warehouse that has
\* extracted and loaded document 1 and finds document 2 in the source
EarlierStores ==
    {[source |-> {[id |-> 1, ing |-> 1]}, hwmFile |-> NoTs,
      icebergCreated |-> FALSE, iceberg |-> <<>>, duck |-> <<>>],
     [source |-> {[id |-> 1, ing |-> 1], [id |-> 2, ing |-> 2]}, hwmFile |-> 1,
      icebergCreated |-> TRUE,
      iceberg |-> <<[id |-> 1, ing |-> 1, ext |-> 1]>>,
      duck |-> <<[id |-> 1, ing |-> 1, ext |-> 1]>>]}

PipelineInit ==
    /\ \E st \in EarlierStores :
          /\ source = st.source
          /\ hwmFile = st.hwmFile
          /\ icebergCreated = st.icebergCreated
          /\ iceberg = st.iceberg
          /\ duck = st.duck
          /\ tableExists = (st.duck /= <<>>)
    /\ now = MaxTime
    /\ last = NoOutcome
    /\ prev = Brief(NoOutcome)
    /\ ConnIdle
    /\ PipeIdle
    /\ AuxIdle

StartFlowStep == (\E o \in Options : StartFlow(o)) /\ UNCHANGED <<connVars, auxVars>>

SkipExtractStep == SkipExtract /\ UNCHANGED <<connVars, auxVars>>

ExtractTaskStep == ExtractTask /\ UNCHANGED <<connVars, auxVars>>

PauseMetabaseStep == (\E out \in DockerRuns : PauseMetabase(out)) /\ UNCHANGED <<connVars, auxVars>>

RunUncoordinatedStep == RunUncoordinated /\ UNCHANGED <<connVars, auxVars>>

SkipLoadStep == SkipLoad /\ UNCHANGED <<connVars, auxVars>>

LoadConnectStep == LoadConnect /\ UNCHANGED <<connVars, auxVars>>

LoadRunStep == LoadRun /\ UNCHANGED <<connVars, auxVars>>

LoadDisconnectStep == LoadDisconnect /\ UNCHANGED <<connVars, auxVars>>

SkipTransformStep == SkipTransform /\ UNCHANGED <<connVars, auxVars>>

DbtStartStep == DbtStart /\ UNCHANGED <<connVars, auxVars>>

DbtExitStep == (\E returncode \in {0, 1} : DbtExit(returncode)) /\ UNCHANGED <<connVars, auxVars>>

ResumeMetabaseStep == (\E out \in DockerRuns : ResumeMetabase(out)) /\ UNCHANGED <<connVars, auxVars>>

LeaveUncoordinatedStep == LeaveUncoordinated /\ UNCHANGED <<connVars, auxVars>>

PipelineNext ==
    \/ StartFlowStep \/ SkipExtractStep \/ ExtractTaskStep
    \/ PauseMetabaseStep \/ RunUncoordinatedStep
    \/ SkipLoadStep \/ LoadConnectStep \/ LoadRunStep \/ LoadDisconnectStep
    \/ SkipTransformStep \/ DbtStartStep \/ DbtExitStep
    \/ ResumeMetabaseStep \/ LeaveUncoordinatedStep

PipelineSpec == PipelineInit /\ [][PipelineNext]_vars

\* the flow is one sequential program: it goes on while it has a next
\* statement, and every docker command and the dbt build end
PipelineLiveSpec == PipelineSpec /\ WF_vars(PipelineNext)

\* the watermark file on its own: a file an earlier run or someone else
\* left behind, one caller of set and one caller of get
SetTimes == {Aware(w, o) : w \in 1..MaxHwm, o \in Offsets}

CorruptTexts ==
    {<<>>,
     <<"invalid", "json">>,
     <<"[", "]">>,
     <<"null">>,
     <<"7">>,
     <<Quote, "2", "+", "0", Quote>>,
     <<"{", "}">>,
     <<"{", KeyUpdated, Quote, "1", "+", "0", Quote, "}">>,
     <<"{", KeyLast, "null", "}">>,
     <<"{", KeyLast, "0", "}">>,
     <<"{", KeyLast, "7", "}">>,
     <<"{", KeyLast, Quote, Quote, "}">>,
     <<"{", KeyLast, Quote, "yesterday", Quote, "}">>,
     <<"{", KeyLast, Quote, "2", Quote, "}">>,
     <<"{", KeyLast, Quote, "1", "+", "0", Quote>>}

\* files that hold a timestamp: written by set, or by hand without the
\* updated_at member
WrittenTexts ==
    {SetData(t, Aware(1, 0)) : t \in SetTimes}
        \cup {<<"{", KeyLast, Quote>> \o IsoFormat(t) \o <<Quote, "}">> :
                 t \in SetTimes}

WatermarkInit ==
    /\ NoData /\ ConnIdle /\ PipeIdle /\ NormIdle /\ StatIdle /\ MoreIdle
    /\ hwmExists \in BOOLEAN
    /\ hwmParent \in BOOLEAN
    /\ hwmExists => hwmParent
    /\ hwmText \in (IF hwmExists THEN CorruptTexts \cup WrittenTexts ELSE {<<>>})
    /\ held = (LET r == HighWaterMarkGet(hwmExists, hwmText)
               IN  IF r.raised = "none" THEN r.value ELSE NoDatetime)
    /\ setPc = "idle"
    /\ setArg = NoDatetime
    /\ setBuf = <<>>
    /\ sets = 0
    /\ getPc = "idle"
    /\ getBuf = <<>>
    /\ getResult = NoResult
    /\ getCands = {}
    /\ getSets = 0

WatermarkFrame ==
    UNCHANGED <<dataVars, connVars, pipeVars, normVars, statVars, moreVars>>

SetCallStep == (\E t \in SetTimes : SetCall(t)) /\ WatermarkFrame

SetOpenStep == SetOpen /\ WatermarkFrame

SetWriteStep == SetWrite /\ WatermarkFrame

SetReturnStep == SetReturn /\ WatermarkFrame

GetCallStep == GetCall /\ WatermarkFrame

GetReadStep == GetRead /\ WatermarkFrame

WatermarkNext ==
    \/ SetCallStep \/ SetOpenStep \/ SetWriteStep \/ SetReturnStep
    \/ GetCallStep \/ GetReadStep

WatermarkSpec == WatermarkInit /\ [][WatermarkNext]_vars

\* the normalizer on its own: one document of the source collection and
\* the time of the extraction run
Texts == {Str(<<"hi">>), Absent, None, Num(7)}
Names == {Str(<<"Read">>), Absent, None}

Blocks ==
    {DictBlock("text", t, Absent) : t \in Texts}
        \cup {DictBlock("tool_use", Absent, n) : n \in Names}
        \cup {DictBlock("tool_result", Absent, Absent),
              DictBlock("image", Absent, Absent),
              DictBlock("absent", Str(<<"hi">>), Absent),
              StrBlock(<<"note">>), NumBlock(7)}

RECURSIVE BlockLists(_)
BlockLists(n) ==
    IF n = 0 THEN {<<>>}
    ELSE LET shorter == BlockLists(n - 1)
         IN  shorter \cup {Append(l, b) : l \in shorter, b \in Blocks}

Roles == {Absent, None, Str(<<"user">>)}

MessageValues ==
    {Message("absent", <<>>, Absent, Absent, <<>>),
     Message("null", <<>>, Absent, Absent, <<>>),
     Message("str", <<"hello">>, Absent, Absent, <<>>),
     Message("str", <<>>, Absent, Absent, <<>>),
     Message("num", <<"0">>, Absent, Absent, <<>>),
     Message("list", <<>>, Absent, Absent, <<>>),
     Message("list", <<>>, Absent, Absent, <<StrBlock(<<"note">>)>>)}
        \cup {Message("dict", <<>>, r, c, <<>>) :
                 r \in Roles, c \in {Absent, None, Str(<<"hello">>), Num(7)}}
        \cup {Message("dict", <<>>, r, ListValue, l) :
                 r \in Roles, l \in BlockLists(MaxBlocks)}

DocWalls == 1..MaxStamp

StampValues ==
    {NoStamp, NullStamp, NumStamp(7), StrStamp(<<"yesterday">>)}
        \cup {DatetimeStamp(Naive(w)) : w \in DocWalls}
        \cup {DatetimeStamp(Aware(w, o)) : w \in DocWalls, o \in Offsets}
        \cup {StrStamp(IsoFormat(Naive(w))) : w \in DocWalls}
        \cup {StrStamp(IsoFormat(Aware(w, o))) : w \in DocWalls, o \in Offsets}
        \cup {StrStamp(<<Digits[w + 1], "Z">>) : w \in DocWalls}

IngestedValues ==
    {NoStamp}
        \cup {DatetimeStamp(Naive(w)) : w \in DocWalls}
        \cup {StrStamp(IsoFormat(Aware(w, o))) : w \in DocWalls, o \in Offsets}

IdValues == {Absent, None, Str(<<"65a1">>)}

RunTimes == {Aware(w, 0) : w \in Walls}

\* documents with every shape of message, and documents with every kind
\* of timestamp
Documents ==
    {Document(i, m, DatetimeStamp(Naive(1)), NoStamp) :
        i \in IdValues, m \in MessageValues}
        \cup {Document(Str(<<"65a1">>), m, ts, ing) :
                 m \in {Message("absent", <<>>, Absent, Absent, <<>>),
                        Message("str", <<"hello">>, Absent, Absent, <<>>)},
                 ts \in StampValues, ing \in IngestedValues}

NormalizeInit ==
    /\ NoData /\ ConnIdle /\ PipeIdle /\ FileIdle /\ StatIdle /\ MoreIdle
    /\ srcDoc \in Documents
    /\ runTime \in RunTimes
    /\ normRecord = NoRecord
    /\ normPc = "idle"

TransformCallStep ==
    /\ TransformCall
    /\ UNCHANGED <<dataVars, connVars, pipeVars, fileVars, statVars, moreVars>>

NormalizeNext == TransformCallStep

NormalizeSpec == NormalizeInit /\ [][NormalizeNext]_vars

\* the statistics query on its own, over the stores as earlier runs may
\* have left them: no table, an empty table, a table with rows
StatRows == {[id |-> i, ing |-> g, ext |-> MaxTime] : i \in Ids, g \in {NoTs} \cup Times}

StatTables ==
    PriorTables
        \cup {<<r>> : r \in StatRows}
        \cup {t \in {<<r, q>> : r \in StatRows, q \in StatRows} : t[1].id /= t[2].id}

StatsInit ==
    /\ ConnIdle /\ PipeIdle /\ FileIdle /\ NormIdle /\ MoreIdle
    /\ source = {}
    /\ now = MaxTime
    /\ hwmFile \in {NoTs, MaxTime}
    /\ icebergCreated \in BOOLEAN
    /\ iceberg \in (IF icebergCreated
                    THEN {<<[id |-> 1, ing |-> 1, ext |-> 1]>>} ELSE {<<>>})
    /\ tableExists \in BOOLEAN
    /\ duck \in (IF tableExists THEN StatTables ELSE {<<>>})
    /\ last = NoOutcome
    /\ prev = Brief(NoOutcome)
    /\ columns \in [Ids -> [project_id : Projects, type : Types]]
    /\ stats = NoStats

GetTableStatsStep ==
    /\ \E fault \in {"none", "connect"} : GetTableStats(fault)
    /\ UNCHANGED <<connVars, pipeVars, fileVars, normVars, moreVars>>

StatsNext == GetTableStatsStep

StatsSpec == StatsInit /\ [][StatsNext]_vars

\* create_database called again and again, on a database file that holds
\* the objects an earlier call created before it ended or failed
Catalogs == {{CreateStatements[i] : i \in 1..n} : n \in 0..Len(CreateStatements)}

SchemaInit ==
    /\ ConnIdle /\ PipeIdle /\ FileIdle /\ NormIdle /\ StatIdle
    /\ source = {}
    /\ now = 1
    /\ hwmFile = NoTs
    /\ icebergCreated = FALSE
    /\ iceberg = <<>>
    /\ catalog \in Catalogs
    /\ tableExists = ("raw.conversations" \in catalog)
    /\ duck \in (IF tableExists THEN StatTables ELSE {<<>>})
    /\ last = NoOutcome
    /\ prev = Brief(NoOutcome)
    /\ creates = 0
    /\ created = NoCreate
    /\ LoadIdle /\ RunIdle

CreateDatabaseCallStep ==
    /\ \E fault \in {"none", "connect"} : CreateDatabaseCall(fault)
    /\ UNCHANGED <<connVars, pipeVars, fileVars, normVars, statVars, loadVars,
                   runVars>>

SchemaNext == CreateDatabaseCallStep

SchemaSpec == SchemaInit /\ [][SchemaNext]_vars

\* one load, from every layout of the table directory: no path, no
\* metadata directory, no metadata file, or the metadata files of the
\* versions lo..hi (older files may have been removed)
VersionRanges == {lo..hi : lo \in 0..MaxVersion, hi \in 0..MaxVersion}

LoadRecords ==
    {<<>>,
     <<[id |-> 1, ing |-> 1, ext |-> 1]>>,
     <<[id |-> 1, ing |-> 1, ext |-> 1], [id |-> 2, ing |-> 2, ext |-> 2]>>,
     <<[id |-> 1, ing |-> 1, ext |-> 1], [id |-> 1, ing |-> 1, ext |-> 2]>>}

LoadTables ==
    {<<>>,
     <<[id |-> 1, ing |-> 1, ext |-> 1]>>,
     <<[id |-> 2, ing |-> 1, ext |-> 1], [id |-> 1, ing |-> NoTs, ext |-> 1]>>}

LoadInit ==
    /\ ConnIdle /\ PipeIdle /\ FileIdle /\ NormIdle /\ StatIdle
    /\ source = {}
    /\ now = MaxTime
    /\ hwmFile = NoTs
    /\ tablePath \in BOOLEAN
    /\ metadataDir \in (IF tablePath THEN BOOLEAN ELSE {FALSE})
    /\ metaVersions \in (IF metadataDir THEN VersionRanges ELSE {{}})
    /\ icebergCreated = (metaVersions /= {})
    /\ iceberg \in (IF icebergCreated THEN LoadRecords ELSE {<<>>})
    /\ catalog \in {{}, SchemaObjects}
    /\ tableExists = ("raw.conversations" \in catalog)
    /\ duck \in (IF tableExists THEN LoadTables ELSE {<<>>})
    /\ last = NoOutcome
    /\ prev = Brief(NoOutcome)
    /\ creates = 0
    /\ created = NoCreate
    /\ loadOut = NoLoad
    /\ RunIdle

LoadFromIcebergStep ==
    /\ \E full \in BOOLEAN, fault \in {"none", "connect", "extension", "insert"} :
         \E dup \in DupOutcomes : LoadFromIceberg(full, fault, dup)
    /\ UNCHANGED <<connVars, pipeVars, fileVars, normVars, statVars, runVars>>

LoadNext == LoadFromIcebergStep

LoadSpec == LoadInit /\ [][LoadNext]_vars

\* one call of extract, step by step, and load_task after it: the source
\* holds documents 1..n, each with or without ingestedAt
RunSources ==
    UNION {{{[id |-> i, ing |-> f[i]] : i \in 1..n} :
               f \in [1..n -> {NoTs} \cup Times]} : n \in 0..MaxFetch}

ExtractorInit ==
    /\ ConnIdle /\ PipeIdle /\ FileIdle /\ NormIdle /\ StatIdle
    /\ SchemaIdle /\ LoadIdle
    /\ source \in RunSources
    /\ now = MaxTime
    /\ hwmFile \in {NoTs, 1}
    /\ iceberg \in {<<>>, <<[id |-> 1, ing |-> 1, ext |-> 1]>>}
    /\ icebergCreated = (iceberg /= <<>>)
    /\ tableExists = FALSE
    /\ duck = <<>>
    /\ last = NoOutcome
    /\ prev = Brief(NoOutcome)
    /\ RunIdle

RunFrame ==
    UNCHANGED <<connVars, pipeVars, fileVars, normVars, statVars, schemaVars,
                loadVars>>

ExtractCallStep ==
    /\ \E full \in BOOLEAN, bs \in 1..MaxBatch, fault \in {"none", "catalog"} :
         ExtractCall(full, bs, fault)
    /\ RunFrame

MongoConnectStep ==
    /\ \E fault \in {"none", "client", "ping"} :
         \E docs \in FetchDocuments(xLoc.since) : MongoConnect(fault, docs)
    /\ RunFrame

FetchNextStep == (\E fault \in {"none", "cursor"} : FetchNext(fault)) /\ RunFrame

FlushStep == (\E fault \in {"none", "append"} : Flush(fault)) /\ RunFrame

WriteRemainingStep ==
    (\E fault \in {"none", "append"} : WriteRemaining(fault)) /\ RunFrame

SetMarkStep == (\E fault \in {"none", "set"} : SetMark(fault)) /\ RunFrame

ExtractFinallyStep == ExtractFinally /\ RunFrame

LoadTaskCallStep ==
    /\ \E full \in BOOLEAN : LoadTaskCall([NoOptions EXCEPT !.full_refresh = full])
    /\ UNCHANGED <<connVars, auxVars>>

ExtractorNext ==
    \/ ExtractCallStep \/ MongoConnectStep \/ FetchNextStep \/ FlushStep
    \/ WriteRemainingStep \/ SetMarkStep \/ ExtractFinallyStep
    \/ LoadTaskCallStep \/ LoadConnectStep \/ LoadRunStep \/ LoadDisconnectStep

ExtractorSpec == ExtractorInit /\ [][ExtractorNext]_vars

\* ------------------------------------------------------------ properties
\* the records the latest extract run appended to the Iceberg table
Processed == SubSeq(iceberg, Len(iceberg) - last.written + 1, Len(iceberg))

\* the greatest ingestion timestamp of a set of timestamps, NoTs when
\* none is set
MaxOf(S) == IF S \ {NoTs} = {} THEN NoTs
            ELSE CHOOSE m \in S : \A x \in S : x <= m

MaxIng(recs) == MaxOf({recs[i].ing : i \in 1..Len(recs)})

\* the record of the Iceberg table written last for an id
LatestRecord(id) ==
    iceberg[CHOOSE i \in 1..Len(iceberg) :
                /\ iceberg[i].id = id
                /\ \A j \in (i + 1)..Len(iceberg) : iceberg[j].id /= id]

\* two tables hold the same rows
SameRows(a, b) ==
    /\ Len(a) = Len(b)
    /\ {a[i] : i \in 1..Len(a)} = {b[i] : i \in 1..Len(b)}

ExtractReturned == last.op = "extract" /\ ~last.raised
ExtractRaised == last.op = "extract" /\ last.raised
LoadReturned == last.op = "load" /\ ~last.raised

\* C1: an extract run that raises (at connect, on the cursor, on an append)
\* leaves the high water mark file exactly as it was before the run
C1_FailedRunKeepsWatermark == ExtractRaised => hwmFile = last.hwm0

\* a run raised after it had appended records newer than the stored mark
C1_Witness ==
    /\ ExtractRaised
    /\ last.written > 0
    /\ MaxIng(Processed) > last.hwm0

\* C2 (as claimed): after a run that raised with part of its batches
\* written, the rerun from the same watermark followed by a load leaves
\* exactly one row for every source document
C2_RerunThenLoadConverges ==
    (/\ last.op = "load" /\ last.fault = "none"
     /\ prev.op = "extract" /\ ~prev.raised /\ prev.rerun)
    => /\ ~last.raised
       /\ \A d \in source : RowsWithId(duck, d.id) = 1

\* C3 (as claimed): after an incremental extract that returned and a load
\* that returned, every source document has exactly one row
C3_EveryDocumentOneRow ==
    (/\ LoadReturned
     /\ prev.op = "extract" /\ ~prev.full /\ ~prev.raised)
    => \A d \in source : RowsWithId(duck, d.id) = 1

\* C3 (amended): after an incremental extract that returned and a load that
\* returned, every source document the run's query selects (any document
\* when no watermark was stored, else one whose ingestion timestamp is set
\* and greater than the watermark) has exactly one row
C3_SelectedDocumentOneRow ==
    (/\ LoadReturned
     /\ prev.op = "extract" /\ ~prev.full /\ ~prev.raised)
    => \A d \in source :
          (prev.since = NoTs \/ (d.ing /= NoTs /\ d.ing > prev.since))
          => RowsWithId(duck, d.id) = 1

\* an incremental run from a stored watermark picked up a newer document,
\* and the load after it returned
C3_Witness ==
    /\ LoadReturned
    /\ prev.op = "extract" /\ ~prev.full /\ ~prev.raised
    /\ prev.since /= NoTs
    /\ \E d \in source : d.ing /= NoTs /\ d.ing > prev.since

\* C4: an incremental run that returned and saw an ingestion timestamp
\* leaves a watermark no smaller than the one it read
C4_WatermarkMonotonic ==
    (ExtractReturned /\ ~last.full /\ MaxIng(Processed) /= NoTs)
    => hwmFile >= last.since

\* an incremental run from a stored watermark that saw a timestamp
C4_Witness ==
    /\ ExtractReturned /\ ~last.full
    /\ last.since /= NoTs
    /\ MaxIng(Processed) /= NoTs

\* C5: after a run that returned, the watermark is the greatest ingestion
\* timestamp of the records of the run when one of them has a timestamp,
\* and the file is as before the run when none has
C5_WatermarkIsMaxIngested ==
    ExtractReturned
    => hwmFile = (IF MaxIng(Processed) /= NoTs THEN MaxIng(Processed)
                  ELSE last.hwm0)

\* a run over records with two different ingestion timestamps
C5_Witness ==
    /\ ExtractReturned
    /\ \E i, j \in 1..Len(Processed) :
          /\ Processed[i].ing /= NoTs /\ Processed[j].ing /= NoTs
          /\ Processed[i].ing < Processed[j].ing

FirstRun == ExtractReturned /\ ~last.full /\ last.since = NoTs
SecondRun ==
    /\ ExtractReturned /\ ~last.full
    /\ prev.op = "extract" /\ ~prev.full /\ ~prev.raised /\ prev.since = NoTs

FirstRunExtractsAll ==
    /\ last.count = Cardinality(source)
    /\ IdsOf(Processed) = {d.id : d \in source}
    /\ hwmFile = MaxOf({d.ing : d \in source})

SecondRunExtractsNothing ==
    /\ last.count = 0
    /\ last.written = 0
    /\ hwmFile = last.hwm0

\* C6 (as claimed): an incremental run without a stored watermark extracts
\* every source document and sets the watermark to their greatest ingestion
\* timestamp; the incremental run right after it, with no new document,
\* extracts nothing, appends nothing and leaves the watermark
C6_SecondRunExtractsNothing ==
    /\ FirstRun => FirstRunExtractsAll
    /\ SecondRun => SecondRunExtractsNothing

\* C6 (amended): the same, for a source in which some document carries an
\* ingestion timestamp
C6_SecondRunAfterWatermark ==
    (\E d \in source : d.ing /= NoTs)
    => /\ FirstRun => FirstRunExtractsAll
       /\ SecondRun => SecondRunExtractsNothing

\* the second of two incremental runs, the first of which had set the
\* watermark from a non-empty source
C6_Witness ==
    /\ SecondRun
    /\ last.since /= NoTs
    /\ last.count = 0

\* C7: a load that returns right after a load of the same mode (full
\* refresh or upsert) that returned, over the same Iceberg table, leaves
\* the rows of the table as the first load left them
C7_LoadIdempotent ==
    [][(/\ LoadReturned
        /\ last'.op = "load" /\ ~last'.raised /\ last'.full = last.full)
       => SameRows(duck', duck)]_vars

\* a load was repeated over a table of two rows, both loads returned
C7_Witness ==
    /\ LoadReturned /\ last.rerun
    /\ Len(duck) >= 2

\* C8 (as claimed): a load of data that holds an id twice succeeds, leaves
\* one row for every id, and the row holds the values of the later record
C8_DuplicateIdLastWins ==
    (/\ last.op = "load" /\ last.fault = "none"
     /\ HasDuplicateIds(iceberg))
    => /\ ~last.raised
       /\ \A id \in IdsOf(iceberg) :
             /\ RowsWithId(duck, id) = 1
             /\ \A i \in 1..Len(duck) :
                   duck[i].id = id => duck[i] = LatestRecord(id)

\* C9: no two rows of raw.conversations have the same _id
C9_PrimaryKeyUnique ==
    \A i, j \in 1..Len(duck) : i /= j => duck[i].id /= duck[j].id

\* an upsert returned whose records all met a row of theirs in the table
C9_Witness ==
    /\ LoadReturned /\ ~last.full /\ last.rerun
    /\ iceberg /= <<>>
    /\ last.count = 0

\* C10 (as claimed): after a full refresh that returned, the table has as
\* many rows as the Iceberg table has records
C10_FullRefreshCountsRecords ==
    (LoadReturned /\ last.full) => Len(duck) = Len(iceberg)

\* C10 (amended): after a full refresh that returned, the table has one row
\* for every id of the Iceberg table and no other row
C10_FullRefreshCountsIds ==
    (LoadReturned /\ last.full)
    => /\ Len(duck) = Cardinality(IdsOf(iceberg))
       /\ IdsOf(duck) = IdsOf(iceberg)

\* a full refresh returned over an Iceberg table that holds an id twice
C10_Witness ==
    /\ LoadReturned /\ last.full
    /\ HasDuplicateIds(iceberg)
    /\ Len(duck) >= 1

\* ------------------------------------------------------------ connect
IsTry(x) == x.ev = "try"
IsSleep(x) == x.ev = "sleep"

\* the attempts and the sleeps connect has made since it was called
Tries == SelectSeq(connLog, IsTry)
Sleeps == SelectSeq(connLog, IsSleep)

\* the exception connect raised
Raised == connLog[Len(connLog)].err

\* connect returned a connection it had to open (it had none)
ConnectOpened == connPc = "returned" /\ Len(connLog) > 1

\* the documented delays, in seconds
BackoffSchedule == <<2, 4, 8, 16, 30>>

\* a lock-classified error: an I/O error whose message contains "lock" or
\* "conflicting", in any case of the letters
LockMessages ==
    {<<"s", "e", "t", " ", "l", "o", "c", "k">>,
     <<"C", "o", "n", "f", "l", "i", "c", "t", "i", "n", "g">>,
     <<"L", "O", "C", "K", "E", "D">>}

LockClassified(e) == e.type = "IOException" /\ e.msg \in LockMessages

\* C11: when the first k attempts (k in 0..4) fail with a lock-classified
\* error and attempt k+1 succeeds, connect returns after exactly k sleeps;
\* the i-th sleep lasts min(2 * 2^(i-1), 30) seconds (2, 4, 8, 16) and
\* comes after the i-th failed attempt and before attempt i+1
C11_BackoffBeforeSuccess ==
    ConnectOpened =>
        LET k == attempt
        IN  /\ k \in 0..4
            /\ Len(connLog) = 2 * k + 2
            /\ \A i \in 1..k :
                 /\ connLog[2 * i - 1] = Event("try", i, NoError)
                 /\ connLog[2 * i] = Event("sleep", BackoffSchedule[i], NoError)
            /\ connLog[2 * k + 1] = Event("try", k + 1, NoError)
            /\ connLog[2 * k + 2] = Event("return", 0, NoError)

\* three lock conflicts, then success: the sleeps were 2, 4 and 8 seconds
C11_Witness ==
    /\ ConnectOpened
    /\ attempt = 3
    /\ LockClassified(last_error)
    /\ Sleeps = <<Event("sleep", 2, NoError), Event("sleep", 4, NoError),
                  Event("sleep", 8, NoError)>>

\* C12: an error that is not lock-classified (an I/O error without "lock"
\* and "conflicting" in its message, or an error of another kind) leaves
\* connect at once, on whichever attempt it occurs: it is the error raised,
\* no sleep follows it and no attempt is made after it; so every failure
\* that connect slept on was lock-classified
C12_NonLockRaisesAtOnce ==
    /\ (connPc \in {"loop", "returned"} /\ attempt > 0)
           => LockClassified(last_error)
    /\ (connPc = "raised" /\ ~LockClassified(Raised))
           => /\ connLog[Len(connLog) - 1] = Event("try", attempt + 1, NoError)
              /\ Len(Sleeps) = attempt
              /\ Len(Tries) = attempt + 1

\* an I/O error that is no lock conflict is raised on the third attempt,
\* after two lock conflicts
C12_Witness ==
    /\ connPc = "raised"
    /\ attempt = 2
    /\ Raised.type = "IOException"
    /\ ~LockClassified(Raised)
    /\ Len(Sleeps) = 2

\* C13: connect makes at most 5 attempts; when all 5 fail with lock
\* conflicts it raises the last of them; no sleep is longer than 30 seconds
\* and the sleeps never get shorter
C13_BoundedRetry ==
    /\ Len(Tries) <= 5
    /\ connPc = "loop" => Len(Tries) < 5
    /\ (connPc = "raised" /\ Len(Tries) = 5 /\ LockClassified(Raised))
           => /\ Raised = last_error
              /\ attempt = 5
    /\ \A i \in 1..Len(Sleeps) : Sleeps[i].n <= 30
    /\ \A i \in 1..(Len(Sleeps) - 1) : Sleeps[i].n <= Sleeps[i + 1].n

\* five lock conflicts in a row: connect raises the fifth
C13_Witness ==
    /\ connPc = "raised"
    /\ Len(Tries) = 5
    /\ LockClassified(Raised)
    /\ Raised = last_error
    /\ Len(Sleeps) = 5

\* ------------------------------------------------------------ pipeline
Containers == {METABASE_CONTAINERS[i] : i \in 1..Len(METABASE_CONTAINERS)}

\* the docker commands of one kind run so far
Commands(action) == {i \in 1..Len(signals) : signals[i].action = action}

\* the command reached the container: docker ran (whatever its exit code)
SignalSent(action, c) ==
    \E i \in Commands(action) :
        signals[i].container = c /\ signals[i].result # "unsent"

\* the command exited with code 0
SignalSucceeded(action, c) ==
    \E i \in Commands(action) :
        signals[i].container = c /\ signals[i].result = "ok"

\* docker could be run for every command so far
ControlAvailable == \A i \in 1..Len(signals) : signals[i].result # "unsent"

\* the Load step holds an open connection or the Transform subprocess runs
Writing == loaderOpen \/ dbtRunning

\* the flow has ended: it returned the results or an exception left it
Ended == pc \in {"done", "raised"}

\* Step 2 or Step 3 of _run_duckdb_steps has been reached
CriticalSectionEntered ==
    \/ pc \in {"load", "load_run", "load_close", "transform", "dbt", "unwind"}
    \/ results.load # "unset"
    \/ tries.load > 0

\* C14 (as stated): with coordination enabled, whenever the Load step holds
\* an open connection or the Transform subprocess runs, every listed
\* reader has been sent a stop signal and none has been sent a start signal
C14_ReadersStoppedWhileWriting ==
    (opts.coordinate_metabase /\ Writing)
        => /\ \A c \in Containers : SignalSent("stop", c)
           /\ Commands("start") = {}

\* C14 (amended): with coordination enabled, whenever the Load step holds
\* an open connection or the Transform subprocess runs, no start command
\* has been run, and every listed reader has been sent a stop signal
\* provided docker could be run for the stop commands
C14_ReadersStoppedWhenControlRuns ==
    (opts.coordinate_metabase /\ Writing)
        => /\ Commands("start") = {}
           /\ ControlAvailable => \A c \in Containers : SignalSent("stop", c)

\* the connection is open after both containers were sent a stop signal,
\* one of which failed
C14_Witness ==
    /\ opts.coordinate_metabase
    /\ loaderOpen
    /\ ControlAvailable
    /\ \A c \in Containers : SignalSent("stop", c)
    /\ ~SignalSucceeded("stop", "metabase")

\* C15: when the flow has ended, by return or by exception, every reader
\* that was sent a stop signal has been issued a start signal (docker
\* being there to run every command)
C15_StoppedReadersStarted ==
    (Ended /\ ControlAvailable)
        => \A c \in Containers :
               SignalSent("stop", c) =>
                   \E i \in Commands("start") : signals[i].container = c

\* C16: whatever the stop and start commands do, no exception leaves
\* pause_metabase, resume_metabase or metabase_paused because of them, and
\* Load and Transform are reached in every coordinated run whose Extract
\* did not fail
C16_CoordinationNeverFatal ==
    /\ failed \notin {"pause", "resume"}
    /\ (Coordinated(opts) /\ pc \notin {"idle", "extract", "gate"}
            /\ failed # "extract")
           => CriticalSectionEntered
    /\ (Ended /\ failed = "none") => pc = "done"

\* a coordinated run returned its results although a stop command timed
\* out or docker was missing
C16_Witness ==
    /\ pc = "done"
    /\ Coordinated(opts)
    /\ ~paused
    /\ results.load = "stats"
    /\ results.transform = "stats"
    /\ \E i \in Commands("stop") : signals[i].result = "unsent"

\* C17: the docker commands are run exactly when coordination is enabled and
\* Load or Transform will run; the stop commands after Extract has ended
\* and before Load starts, the start commands after Transform has ended;
\* with Load and Transform both skipped no command is run at all
C17_WrappedWhenNeeded ==
    /\ signals # <<>> => (opts.coordinate_metabase /\ NeedsDuckdb(opts))
    /\ (opts.skip_load /\ opts.skip_transform) => signals = <<>>
    /\ (opts.coordinate_metabase /\ NeedsDuckdb(opts) /\ CriticalSectionEntered)
           => /\ signals # <<>>
              /\ signals[1].action = "stop"
    /\ pc \in {"idle", "extract", "gate"} => signals = <<>>
    /\ signals # <<>> => results.extraction # "unset"
    /\ (tries.load = 0 /\ results.load = "unset" /\ pc # "load")
           => Commands("stop") = {} \/ Ended
    /\ \A i \in Commands("stop"), j \in Commands("start") : i < j
    /\ Commands("start") # {}
           => /\ Ended
              /\ ~Writing
              /\ results.load # "unset" \/ failed = "load"
              /\ results.transform # "unset" \/ failed \in {"load", "transform"}

\* a coordinated run that skipped Load: the containers were stopped before
\* Transform and started after it
C17_Witness ==
    /\ pc = "done"
    /\ opts.skip_load
    /\ ~opts.skip_transform
    /\ results.transform = "stats"
    /\ \A c \in Containers : SignalSucceeded("stop", c) /\ SignalSucceeded("start", c)

\* C18: when the exception of a task leaves it, the steps after it are not
\* run and the exception leaves the flow: after a failed Extract neither
\* Load nor Transform starts and no docker command is run, after a failed
\* Load Transform does not start, a dbt build that keeps exiting non-zero
\* fails the flow; what the completed steps appended, advanced and loaded
\* stays as they left it
C18_FailureStopsPipeline ==
    /\ failed = "extract"
           => /\ pc = "raised"
              /\ tries.load = 0 /\ tries.transform = 0
              /\ results.load = "unset" /\ results.transform = "unset"
              /\ signals = <<>>
    /\ failed = "load"
           => /\ pc \in {"unwind", "raised"}
              /\ tries.transform = 0
              /\ results.transform = "unset"
              /\ iceberg = snap.iceberg /\ hwmFile = snap.hwmFile
    /\ failed = "transform"
           => /\ pc \in {"unwind", "raised"}
              /\ results.transform = "unset"
              /\ iceberg = snap.iceberg /\ hwmFile = snap.hwmFile
              /\ duck = snap.duck
    /\ (pc \in {"unwind", "done", "raised"} /\ tries.transform > 0)
           => (results.transform = "stats") # (failed = "transform")
    /\ pc = "done" => failed = "none"
    /\ (Ended /\ failed # "none") => pc = "raised"

\* Load failed for good after Extract had appended a record and advanced
\* the watermark: both are still there
C18_Witness ==
    /\ pc = "raised"
    /\ failed = "load"
    /\ results.extraction = "stats"
    /\ hwmFile = MaxTime
    /\ last.op = "load"
    /\ Len(iceberg) >= 2

\* the position of the flow is in the step, or after it
InOrAfter(task) ==
    CASE task = "extract" -> pc # "idle"
      [] task = "load" -> pc \notin {"idle", "extract", "gate"}
      [] OTHER -> pc \notin {"idle", "extract", "gate", "load", "load_run",
                            "load_close"}

Marker(task) ==
    CASE task = "extract" -> results.extraction
      [] task = "load" -> results.load
      [] OTHER -> results.transform

Skipped(task) ==
    CASE task = "extract" -> opts.skip_extract
      [] task = "load" -> opts.skip_load
      [] OTHER -> opts.skip_transform

\* C19 (as stated): the body of every step is executed at most once
C19_EachStepAtMostOnce == \A t \in Tasks : tries[t] <= 1

\* C19 (amended): for every combination of the skip flags the skipped steps
\* are never executed and are recorded as skip markers, the other steps are
\* called in the order Extract, Load, Transform and their bodies executed at
\* most retries + 1 times (4, 4, 3), again only after an execution that
\* raised; a run that returns has executed each of them; and a load that
\* follows a skipped Extract raises only on a failure of the database, on
\* missing intermediate storage or on a duplicated id
C19_StepsInOrder ==
    /\ \A t \in Tasks :
         /\ Skipped(t) => tries[t] = 0 /\ Marker(t) \in {"unset", "skipped"}
         /\ ~Skipped(t) => Marker(t) \in {"unset", "stats"}
         /\ tries[t] <= Retries(t) + 1
         /\ tries[t] > 0 => InOrAfter(t)
         /\ (Marker(t) = "stats") => tries[t] >= 1
         /\ (pc = "done") => Marker(t) = (IF Skipped(t) THEN "skipped" ELSE "stats")
    /\ (tries.load > 0 \/ results.load # "unset") => results.extraction # "unset"
    /\ (tries.transform > 0 \/ results.transform # "unset") => results.load # "unset"
    /\ (pc = "extract" /\ tries.extract > 0) => last.raised
    /\ (pc = "load" /\ tries.load > 0) => last.raised
    /\ (opts.skip_extract /\ pc = "load_close" /\ last.raised)
           => \/ last.fault # "none"
              \/ ~icebergCreated
              \/ HasDuplicateIds(iceberg)

\* Extract was skipped and Load and Transform ran, Load on its second
\* execution
C19_Witness ==
    /\ pc = "done"
    /\ opts.skip_extract
    /\ results = [extraction |-> "skipped", load |-> "stats", transform |-> "stats"]
    /\ tries.load = 2
    /\ tries.transform = 1

\* ------------------------------------------------------------ source selection
\* the documents a run that reads from the watermark since has to fetch
Selected(since) ==
    IF since = NoTs THEN source
    ELSE {d \in source : d.ing # NoTs /\ d.ing > since}

\* the documents the records of a sequence were made from
DocsOf(recs) == {[id |-> recs[i].id, ing |-> recs[i].ing] : i \in 1..Len(recs)}

\* C20: a full backfill does not read the watermark and fetches every
\* document; an incremental run with the stored watermark W fetches exactly
\* the documents ingested strictly after W, and every document when no
\* watermark is stored; the documents are consumed in ascending order of
\* their ingestion time
C20_SourceSelection ==
    ExtractReturned =>
        /\ last.since = (IF last.full THEN NoTs ELSE last.hwm0)
        /\ DocsOf(Processed) = Selected(last.since)
        /\ Len(Processed) = Cardinality(Selected(last.since))
        /\ last.count = Cardinality(Selected(last.since))
        /\ \A i, j \in 1..Len(Processed) :
               i < j => Processed[i].ing <= Processed[j].ing

\* an incremental run with a stored watermark fetched the newer document
\* and left the one ingested exactly at the watermark
C20_Witness ==
    /\ ExtractReturned
    /\ ~last.full
    /\ last.since # NoTs
    /\ \E d \in source : d.ing = last.since
    /\ Len(Processed) = 1
    /\ Processed[1].ing > last.since

\* ------------------------------------------------------------ watermark file
\* C21: HighWaterMark.get never raises: whatever the file holds, and when
\* there is no file, a call of get returns, and on a missing file or a
\* file that holds no ISO-8601 timestamp under last_extracted_at it
\* returns None
C21_GetNeverRaises ==
    getPc = "done" =>
        /\ getResult.raised = "none"
        /\ getResult.value.kind \in {"none", "naive", "aware"}
        /\ (getBuf \in CorruptTexts \ {<<"{", KeyLast, Quote, "2", Quote, "}">>}
                => getResult.value = NoDatetime)

\* the text set writes, whole
FullText == SetData(setArg, Aware(now, 0))

\* C22: a get that runs while set(t_new) rewrites a file holding t_old
\* returns no timestamp other than t_old and t_new, and a get called after
\* set has returned yields t_new
C22_NoValidButWrongValue ==
    getPc = "done" =>
        /\ getSets <= 1 /\ NoDatetime \notin getCands
               => /\ getResult.raised = "none"
                  /\ getResult.value \in getCands \cup {NoDatetime}
        /\ getSets = 0 /\ sets > 0 => getResult = Returned(setArg)

\* a get that read the file between two writes of a set that replaces one
\* timestamp by another
C22_Witness ==
    /\ getPc = "done"
    /\ setPc = "write"
    /\ held.kind = "aware"
    /\ held /= setArg
    /\ getSets = 1
    /\ getBuf /= <<>>
    /\ Len(getBuf) < Len(FullText)
    /\ getResult = Returned(NoDatetime)

\* the keys of the object the file holds
KeysOf(text) ==
    LET members == JsonLoads(text).members
    IN  {members[i].key : i \in 1..Len(members)}

\* C23: once set(t) has returned, the file and its parent directory exist,
\* get on the file returns t (the t of the latest set when there were
\* several), and the file holds last_extracted_at and updated_at
C23_RoundTrip ==
    setPc = "idle" /\ sets > 0 =>
        /\ hwmExists /\ hwmParent
        /\ setArg \in AwareTimes
        /\ HighWaterMarkGet(hwmExists, hwmText) = Returned(setArg)
        /\ FromIsoFormat(IsoFormat(setArg)) = [ok |-> TRUE, dt |-> setArg]
        /\ KeysOf(hwmText) = {KeyLast, KeyUpdated}

\* two sets have returned, the second with a timestamp east of UTC that
\* differs from the one a get saw before it began
C23_Witness ==
    /\ setPc = "idle"
    /\ sets = 2
    /\ setArg.off > 0
    /\ getPc = "done"
    /\ getResult.value.kind = "aware"
    /\ getResult.value /= setArg
    /\ HighWaterMarkGet(hwmExists, hwmText) = Returned(setArg)

\* ------------------------------------------------------------ normalizer
\* C24: for every document and every extraction time, transform returns a
\* record without raising, and the id of the record is not null
C24_NormalizeNeverRaises ==
    normPc /= "idle" =>
        /\ normPc = "returned"
        /\ normRecord.raised = "none"
        /\ normRecord.id.k = "str"

\* C25: the partition date of a record is the date of its event timestamp
\* when that is not null, else the date of its ingestion timestamp when
\* that is not null, else the date of the extraction run; a document with
\* neither timestamp field gets the date of the run
C25_PartitionDate ==
    normPc = "returned" =>
        /\ normRecord.timestamp /= NoDatetime
               => normRecord.date = DateOf(normRecord.timestamp)
        /\ normRecord.timestamp = NoDatetime /\ normRecord.ingested_at /= NoDatetime
               => normRecord.date = DateOf(normRecord.ingested_at)
        /\ normRecord.timestamp = NoDatetime /\ normRecord.ingested_at = NoDatetime
               => normRecord.date = DateOf(runTime)
        /\ srcDoc.timestamp.k = "absent" /\ srcDoc.ingestedAt.k = "absent"
               => normRecord.date = DateOf(runTime)
        /\ normRecord.extracted_at = runTime

\* a record whose event timestamp did not parse and whose date is the one
\* of its ingestion timestamp, another day than the run's
C25_Witness ==
    /\ normPc = "returned"
    /\ srcDoc.timestamp.k = "str"
    /\ normRecord.timestamp = NoDatetime
    /\ normRecord.ingested_at /= NoDatetime
    /\ normRecord.date = DateOf(normRecord.ingested_at)
    /\ normRecord.date /= DateOf(runTime)

\* the UTC timestamp a timestamp field stands for: no zone means UTC, a
\* zone is converted, anything that is no timestamp gives None
UtcOf(stamp) ==
    LET parsed == FromIsoFormat(ReplaceZ(stamp.s))
        dt == IF stamp.k = "datetime" THEN stamp.dt
              ELSE IF stamp.k = "str" /\ parsed.ok THEN parsed.dt
              ELSE NoDatetime
    IN  IF dt.kind = "none" THEN NoDatetime
        ELSE IF dt.kind = "naive" THEN Aware(dt.wall, 0)
        ELSE AsUtc(dt)

\* C26: the event and the ingestion timestamp of every record are the UTC
\* reading of the instant the document gives (None for what does not
\* parse), and the partition date is a UTC date
C26_TimestampsAreUtc ==
    normPc = "returned" =>
        /\ normRecord.timestamp = UtcOf(srcDoc.timestamp)
        /\ normRecord.ingested_at = UtcOf(srcDoc.ingestedAt)
        /\ normRecord.timestamp /= NoDatetime
               => normRecord.date = DateOf(AsUtc(normRecord.timestamp))

\* C27: flatten_message dispatches on the shape of the message: absent or
\* null gives (None, None, None), a string s gives (None, s, None), an
\* object gives its role and the serialization of the object as raw, not
\* null for any object, and any other value gives (None, None, its
\* serialization)
C27_FlattenDispatch ==
    normPc = "returned" =>
        LET message == srcDoc.message
            role == normRecord.message_role
            content == normRecord.message_content
            raw == normRecord.message_raw
        IN  /\ message.shape \in {"absent", "null"}
                   => role = None /\ content = None /\ raw = None
            /\ message.shape = "str"
                   => role = None /\ content = Str(message.s) /\ raw = None
            /\ message.shape = "dict"
                   => /\ role = GetOrNone(message.role)
                      /\ raw = Str(JsonDumps(message))
                      /\ raw /= None
            /\ message.shape \in {"list", "num"}
                   => role = None /\ content = None /\ raw = Str(JsonDumps(message))

\* a content list of typed blocks: every block is an object with a type
TypedBlocks(message) ==
    /\ message.shape = "dict"
    /\ message.content.k = "list"
    /\ message.blocks /= <<>>
    /\ \A i \in 1..Len(message.blocks) :
          message.blocks[i].shape = "dict" /\ message.blocks[i].type /= "absent"

\* what a typed block stands for in the text
Projection(block) ==
    IF block.type = "text" THEN <<block.text.s>>
    ELSE IF block.type = "tool_use"
    THEN <<<<"[tool_use: ">>
             \o (IF block.name.k = "absent" THEN <<"unknown">>
                 ELSE Format(block.name))
             \o <<"]">>>>
    ELSE IF block.type = "tool_result" THEN <<<<"[tool_result]">>>>
    ELSE <<>>

RECURSIVE Projections(_)
Projections(blocks) ==
    IF blocks = <<>> THEN <<>>
    ELSE Projection(Head(blocks)) \o Projections(Tail(blocks))

\* C28: for an object message whose content is a list of typed blocks,
\* the text is the newline-separated concatenation, in list order, of the
\* text of every text block, "[tool_use: name]" for every tool_use block
\* and "[tool_result]" for every tool_result block, blocks of another type
\* adding nothing, and the role is the role of the object
C28_TypedBlocksConcatenated ==
    normPc /= "idle" /\ TypedBlocks(srcDoc.message) =>
        /\ normPc = "returned"
        /\ normRecord.message_role = GetOrNone(srcDoc.message.role)
        /\ LET parts == Projections(srcDoc.message.blocks)
           IN  IF parts = <<>> THEN normRecord.message_content = None
               ELSE normRecord.message_content = Str(JoinStrings(parts, <<"\n">>))

\* ------------------------------------------------------------ load result
\* C29: a load that returns yields the row count after it minus the row
\* count before it when full_refresh is false, and the row count after it
\* when full_refresh is true; the value is never negative, and it is 0 for
\* a load without full_refresh whose records all have ids of the table
C29_RowsLoaded ==
    [][(last'.op = "load" /\ ~last'.raised /\ now' = now) =>
          /\ ~last'.full => last'.count = Len(duck') - Len(duck)
          /\ last'.full => last'.count = Len(duck')
          /\ last'.count >= 0
          /\ ~last'.full /\ IdsOf(iceberg) \subseteq IdsOf(duck)
                 => last'.count = 0]_vars

\* an upsert that returned 0: every record of the Iceberg table had the id
\* of a row, and the table held two rows
C29_Witness ==
    /\ last.op = "load" /\ ~last.raised /\ ~last.full
    /\ last.count = 0
    /\ iceberg /= <<>>
    /\ IdsOf(iceberg) \subseteq IdsOf(duck)
    /\ Len(duck) = 2

\* ------------------------------------------------------------ statistics
\* the stores: the rows of raw.conversations, the Iceberg table, the
\* watermark file
Stores == <<tableExists, duck, icebergCreated, iceberg, hwmFile>>

\* C30: unless the connection fails, get_table_stats does not raise; on a
\* table that is empty or does not exist it returns row_count 0, no date
\* range, and top projects and type distribution empty or absent; and a
\* call leaves the rows of the table, the Iceberg table and the watermark
\* as they were
C30_StatsTolerantReadOnly ==
    /\ [](stats.op = "stats" /\ stats.fault = "none" =>
             /\ stats.raised = "none"
             /\ stats.row_count = Len(duck)
             /\ duck = <<>> =>
                   /\ stats.row_count = 0
                   /\ ~stats.date_range.present
                   /\ stats.top_projects.groups = {}
                   /\ stats.type_distribution.groups = {})
    /\ [][stats' /= stats => UNCHANGED Stores]_vars

\* statistics of a table that does not exist, in a warehouse that holds a
\* watermark and an Iceberg table
C30_Witness ==
    /\ stats.op = "stats" /\ stats.fault = "none"
    /\ ~tableExists
    /\ stats.row_count = 0
    /\ ~stats.top_projects.present
    /\ icebergCreated /\ hwmFile /= NoTs

\* ------------------------------------------------------------ schema creation
\* C31: a call of create_database whose connection opens does not raise,
\* whatever exists already; after it the schema, the table and the five
\* indexes exist, after one call as after several; a call on the objects
\* of an earlier call changes none of them; and no call changes the rows
\* of the table
C31_CreateIdempotent ==
    /\ [](created.op = "create" /\ created.fault = "none" =>
             /\ created.raised = "none"
             /\ catalog = SchemaObjects
             /\ created.before = SchemaObjects => catalog = created.before)
    /\ [][/\ duck' = duck
          /\ created.op = "create" /\ created.raised = "none"
             /\ created'.fault = "none" => catalog' = catalog]_vars

\* a second call that returned, on a table that holds rows
C31_Witness ==
    /\ creates >= 2
    /\ created.fault = "none" /\ created.raised = "none"
    /\ created.before = SchemaObjects
    /\ catalog = SchemaObjects
    /\ duck /= <<>>

\* ------------------------------------------------------------ load
\* C32: when the table path, the metadata directory or every metadata file
\* is missing, load raises, FileNotFoundError unless the connection or the
\* extension failed first, and the rows of raw.conversations are those
\* from before the call, with and without full_refresh
C32_MissingStorageRaises ==
    loadOut.op = "load" /\ (~tablePath \/ ~metadataDir \/ metaVersions = {}) =>
        /\ loadOut.raised /= "none"
        /\ loadOut.fault = "none" => loadOut.raised = "FileNotFoundError"
        /\ duck = loadOut.before

\* a full refresh of a table with rows, with a metadata directory that
\* holds no metadata file
C32_Witness ==
    /\ loadOut.op = "load" /\ loadOut.full /\ loadOut.fault = "none"
    /\ tablePath /\ metadataDir /\ metaVersions = {}
    /\ loadOut.raised = "FileNotFoundError"
    /\ duck /= <<>>

\* C38: a load that returns has read the metadata file of the greatest
\* version present, the one written last
C38_LatestMetadataSelected ==
    loadOut.op = "load" /\ loadOut.raised = "none" =>
        /\ loadOut.selected \in metaVersions
        /\ \A v \in metaVersions : v <= loadOut.selected

\* ------------------------------------------------------------ extract run
\* the records of a sequence of appends, one after the other
RECURSIVE Concat(_)
Concat(batches) ==
    IF batches = <<>> THEN <<>> ELSE Head(batches) \o Concat(Tail(batches))

\* C33: in a run of extract the batch never holds more than batch_size
\* records and holds none after an append; a run that returns over N
\* documents has made ceil(N / batch_size) appends, each of batch_size
\* records but the last, which holds 1..batch_size; the appends hold the
\* records of the documents in the order they were fetched, each once;
\* there is no append when N = 0; and the run returns N
C33_BatchAccounting ==
    /\ Len(xLoc.batch) <= xLoc.bs
    /\ xPc = "flush" => Len(xLoc.batch) = xLoc.bs
    /\ xPc \in {"fetch", "rest"} =>
          /\ Len(xLoc.batch) < xLoc.bs
          /\ Len(xLoc.batch) = xLoc.total - Len(flushed) * xLoc.bs
          /\ xLoc.total = Len(flushed) * xLoc.bs => xLoc.batch = <<>>
    /\ xPc = "returned" =>
          LET N == Len(fetched)
              B == xLoc.bs
              k == Len(flushed)
          IN  /\ cursor = <<>>
              /\ k = (N + B - 1) \div B
              /\ \A i \in 1..(k - 1) : Len(flushed[i]) = B
              /\ k > 0 => Len(flushed[k]) \in 1..B
              /\ Concat(flushed) =
                    [i \in 1..N |-> Transform(fetched[i], xLoc.extracted_at)]
              /\ iceberg = xLoc.iceberg0 \o Concat(flushed)
              /\ N = 0 => flushed = <<>>
              /\ xLoc.result = N

\* a run that returned after a full append and an append of the rest
C33_Witness ==
    /\ xPc = "returned"
    /\ Len(fetched) = 3 /\ xLoc.bs = 2
    /\ Len(flushed) = 2
    /\ Len(flushed[1]) = 2 /\ Len(flushed[2]) = 1

\* ------------------------------------------------------------ connections
\* C39: when extract has returned or raised, the MongoDB client is closed
\* and _client, _db and _collection are None; when load_task is not between
\* its first statement and its finally clause, the DuckDB connection is
\* closed
C39_ConnectionsReleased ==
    /\ xPc \in {"returned", "raised"} => mongo = NoHandles
    /\ pc \notin {"load_run", "load_close"} => ~loaderOpen

\* extract raised at the ping, after the handles were set; load_task
\* raised after its connection was opened
C39_Witness ==
    /\ xPc = "raised" /\ xLoc.exc = "ping"
    /\ mongo = NoHandles
    /\ pc = "load" /\ tries.load > 0 /\ last.op = "load" /\ last.raised
    /\ ~loaderOpen

\* ------------------------------------------------------------ suspended readers
\* C36: in every run of the flow, a reader whose stop command exited with
\* code 0 is later sent a start command, whatever the stop command of the
\* other reader did and whether or not the critical section raised
C36_NoReaderStaysSuspended ==
    \A c \in Containers : SignalSucceeded("stop", c) ~> SignalSent("start", c)

\* ------------------------------------------------------------ append only
\* the Iceberg table after a step begins with the table before it
Extends(after, before) ==
    /\ Len(after) >= Len(before)
    /\ SubSeq(after, 1, Len(before)) = before

\* C34: every step, an extract run that returns or raises included, leaves
\* the records of the Iceberg table in place and unchanged; an extract run
\* adds one record for each record it wrote, also when the _id is stored
\* already; the number of records never decreases
C34_AppendOnly ==
    [][/\ Extends(iceberg', iceberg)
       /\ \A id \in Ids : RowsWithId(iceberg', id) >= RowsWithId(iceberg, id)
       /\ last'.op = "extract" /\ now' = now /\ iceberg' /= iceberg =>
             Len(iceberg') = Len(iceberg) + last'.written]_vars

\* a full backfill has stored a second record of a document
C34_Witness ==
    /\ last.op = "extract" /\ last.full /\ last.written > 0
    /\ HasDuplicateIds(iceberg)

\* ------------------------------------------------------------ failed load
\* C35: a load that raises leaves the rows of raw.conversations as they
\* were before the call
C35_FailedLoadKeepsRows ==
    loadOut.op = "load" /\ loadOut.raised /= "none" => duck = loadOut.before

====
